---- MODULE Spec2Model ----
(***************************************************************************)
(* Capture persistence of the Knowledge Management System.                 *)
(*                                                                         *)
(* The save path modelled here is the one the sources contain: the web UI  *)
(* serialises a capture (formatCaptureMarkdown), hands {filename, content, *)
(* media} to nativeSave (web/src/shared/platform.ts), which calls the      *)
(* Android bridge WebAppInterface.saveMarkdownAndMedia.  The bridge method *)
(* is executed line by line, so that every state of the vault an observer  *)
(* can see between two storage operations is a state of the model.  A call *)
(* of a @JavascriptInterface method blocks the calling script until the    *)
(* method returns, so the save calls of one WebView run one after another. *)
(***************************************************************************)
EXTENDS Integers, Sequences, FiniteSets, TLC

(* ------------------------------ bounds -------------------------------- *)
MaxClock == 1          \* milliseconds the clock can advance
MaxSaves == 2          \* save calls made in one behaviour

(* --------------------------- capture records -------------------------- *)
\* capture_id as the caller passes it: 0 is the empty/absent capture_id
GivenIds == {0, 1}
Bodies == {"hello", "world"}

\* Date.toISOString(): one string per millisecond instant
ToISOString(ts) == <<"iso", ts>>

generateCaptureId(ts) == ToISOString(ts)

\* capture.capture_id || generateCaptureId(ts)
CaptureIdOf(given, ts) == IF given # 0 THEN <<"given", given>> ELSE generateCaptureId(ts)

\* `${captureId}.md`, and the id a filename carries
FilenameOf(captureId) == <<captureId, ".md">>
IdOfFilename(filename) == filename[1]

\* the markdown text, as the chunks a writer emits: the frontmatter (which
\* carries the id and the timestamp) and the body sections
MarkdownOf(captureId, ts, body) ==
  << <<"frontmatter", captureId, ts, "">>, <<"sections", captureId, ts, body>> >>

formatCaptureMarkdown(given, ts, body) ==
  LET captureId == CaptureIdOf(given, ts)
  IN [filename |-> FilenameOf(captureId), content |-> MarkdownOf(captureId, ts, body)]

Documents ==
  {formatCaptureMarkdown(gi, t, b).content : gi \in GivenIds, t \in 0..MaxClock, b \in Bodies}

(* ------------------------------- media -------------------------------- *)
Blob == <<1, 2>>

\* Base64 text of a blob, and a text that is not Base64 (a data: URL)
Base64Encode(bytes) == [i \in DOMAIN bytes |-> bytes[i] + 100]
BadBase64 == <<0>>
Base64Valid(s) == \A i \in DOMAIN s : s[i] >= 100
Base64Decode(s) == [i \in DOMAIN s |-> s[i] - 100]

Shot == [name |-> "shot.png", dataBase64 |-> Base64Encode(Blob)]
Rec == [name |-> "rec.wav", dataBase64 |-> Base64Encode(Blob)]
RecBad == [name |-> "rec.wav", dataBase64 |-> BadBase64]

\* the attachment lists a capture is saved with
MediaLists == {<<>>, <<Shot>>, <<Rec>>, <<Shot, Rec>>, <<Shot, RecBad>>}

(* ------------------------------ the vault ----------------------------- *)
\* A directory listing is a function from the names present to what the
\* file holds.  DocumentFile.createFile asks the storage provider for a
\* document with a display name; a provider that finds the name taken
\* either refuses (null) or creates the document under a unique variant
\* of the name.
DisplayName(name) == <<name, 0>>
VariantName(name) == <<name, 1>>

Remove(files, f) == [x \in DOMAIN files \ {f} |-> files[x]]
Put(files, f, data) == [x \in DOMAIN files \cup {f} |-> IF x = f THEN data ELSE files[x]]
Prefix(s, k) == SubSeq(s, 1, k)

captureDirRel == <<"capture", "raw_capture">>
mediaDirRel == <<"capture", "raw_capture", "media">>
DirPrefixes(rel, k) == {Prefix(rel, i) : i \in 1..k}
AllDirs == DirPrefixes(mediaDirRel, Len(mediaDirRel))

VARIABLES
  clock,          \* the device clock, in milliseconds
  vaultTreeUri,   \* "null" or "tree"
  dirs,           \* directories present under the vault root
  captureFiles,   \* listing of the capture directory
  mediaFiles,     \* listing of the media directory
  bridge,         \* what getBridge() finds: "none", "capacitor", "webview"
  payload,        \* the SavePayload of the running (or latest) call
  line,           \* the source line the bridge method is at, "idle" outside a call
  txtFile,        \* local `file` of writeTextFile (empty: none)
  binFile,        \* local `file` of writeBinaryFile (empty: none)
  idx,            \* loop variable i of the media loop
  g,              \* history of the running (or latest) call
  done,           \* history: the calls that returned, in order
  resolver,       \* the conflict resolver's run (design, section 4.4)
  rotator,        \* the backup rotator's target file and its backups
  chips,          \* an EntityChips component: its value prop and its state
  fmt,            \* a capture handed to a serializer, and the text it returned
  ui,             \* the state of the web client's App component
  electron,       \* the Electron main process: its windows and child processes
  term,           \* the terminal client's TerminalUI component
  pub,            \* a CaptureForm's tag list and the PublicToggle it renders
  preview,        \* a ClipboardPreview component, its timer and its reads
  dropdown,       \* a SuggestionDropdown component and its fetches
  recorder,       \* an AudioRecorder component, its requests and its websocket
  chooser         \* the Android activity's file chooser and its callbacks

vars == <<clock, vaultTreeUri, dirs, captureFiles, mediaFiles, bridge, payload, line,
          txtFile, binFile, idx, g, done, resolver, rotator, chips, fmt, ui, electron,
          term, pub, preview, dropdown, recorder, chooser>>

\* the components of the later sections
Later == <<term, pub, preview, dropdown, recorder, chooser>>

\* the components of the earlier sections, and the bridge
Earlier == <<clock, vaultTreeUri, dirs, captureFiles, mediaFiles, bridge, payload, line,
             txtFile, binFile, idx, g, done, resolver, rotator, chips, fmt, ui, electron>>

\* what the bridge and its callers never touch
Outside == <<resolver, rotator, chips, fmt, ui, electron, Later>>

\* the variables of the bridge and of its caller
BridgeVars == <<clock, vaultTreeUri, dirs, captureFiles, mediaFiles, bridge, payload, line,
                txtFile, binFile, idx, g, done>>

(* ------------------------- results and wrappers ----------------------- *)
\* The JSON texts saveMarkdownAndMedia returns.  wf: the text parses as
\* JSON (an exception message is pasted unescaped into the last one).
JsonOkTrue == [wf |-> TRUE, ok |-> TRUE, error |-> ""]
JsonNoVault == [wf |-> TRUE, ok |-> FALSE, error |-> "no_vault"]
JsonOkFalse == [wf |-> TRUE, ok |-> FALSE, error |-> ""]
JsonException(wf) == [wf |-> wf, ok |-> FALSE, error |-> "exception"]
NoJson == [wf |-> FALSE, ok |-> FALSE, error |-> "none"]

\* nativeSave: "ok" for {ok: true}, "notok" for {ok: false}, "rejected"
\* when the promise rejects (the Capacitor shim's JSON.parse throws)
nativeSave(b, json) ==
  CASE b = "none" -> "notok"
    [] b = "capacitor" -> IF ~json.wf THEN "rejected" ELSE IF json.ok THEN "ok" ELSE "notok"
    [] OTHER -> IF json.wf /\ json.ok THEN "ok" ELSE "notok"

\* what is remembered of a call: the vault as the call found it, the step
\* that failed, whether a failure was discarded, the files it created
NewHistory ==
  [beforeCap |-> captureFiles, beforeMed |-> mediaFiles, failedAt |-> "none",
   ignored |-> FALSE, mediaCreated |-> {}, mediaDone |-> 0]

NoPayload == [filename |-> FilenameOf(CaptureIdOf(0, 0)), content |-> <<>>, media |-> <<>>]

ResolverIdle ==
  [pc |-> "idle", body |-> "", attempts |-> 0, cand |-> CaptureIdOf(0, 0), tried |-> <<>>,
   result |-> "none"]

\* a capture file as its first create left it: version 0, no backup
RotatorIdle ==
  [version |-> 0, updates |-> 0, backups |-> <<>>, now |-> 0, clean |-> TRUE,
   copied |-> TRUE, attempted |-> FALSE, outcome |-> "none", notice |-> "none"]

\* EntityChips as mounted: value '', no input, no chip being edited (0)
ChipsIdle ==
  [fieldType |-> "tag", value |-> <<>>, inputValue |-> <<>>, editingIndex |-> 0,
   editValue |-> <<>>]

\* no capture handed to a serializer
FmtIdle ==
  [capture |-> [content |-> <<>>, clipboard |-> <<>>, media_files |-> <<>>,
                modalities |-> <<>>, context |-> <<"str", <<>> >>,
                tags |-> <<"arr", <<>> >>, sources |-> <<"arr", <<>> >>,
                capture_id |-> "", location |-> "absent"],
   dir |-> <<>>, by |-> "none", out |-> <<>>]

\* the form of a capture: '' and [] as useState gives them
EmptyForm == [content |-> "", tags |-> "", sources |-> "", mediaFiles |-> <<>>]

\* App as mounted (the snapshot of lines 487-720), no key pressed, no save made.
\* captured is the state the registered keydown listener closes over (that of
\* the render its effect last ran in); posted is what the latest save sent.
UiIdle ==
  [app |-> "A4", form |-> EmptyForm, modalities |-> <<"text">>, saving |-> FALSE,
   savedTo |-> FALSE, saveSuccess |-> FALSE, popup |-> "none", reqs |-> <<>>,
   step |-> "mount",
   last |-> [answer |-> "none", formBefore |-> EmptyForm, shown |-> FALSE],
   ctrlHeld |-> FALSE, focused |-> TRUE, ctrlDown |-> FALSE,
   ev |-> [key |-> 0, ctrlKey |-> FALSE], before |-> <<"text">>,
   help |-> FALSE,
   captured |-> [form |-> EmptyForm, modalities |-> <<"text">>],
   posted |-> [form |-> EmptyForm, modalities |-> <<"text">>]]

\* the Electron main process as loaded: nothing spawned, app not ready
ElectronIdle ==
  [platform |-> "linux", ready |-> FALSE, quit |-> FALSE, mainWindow |-> "undefined",
   windows |-> 0, procs |-> <<>>, serverProcess |-> 0, frontendProcess |-> 0,
   calls |-> <<>>]

\* the later components as constructed, none of them used
TermIdle ==
  [mode |-> "insert", activeField |-> "content", showHelp |-> FALSE, content |-> <<>>,
   context |-> <<>>, tags |-> <<>>, sources |-> <<>>, activeModalities |-> <<"text">>,
   ideas |-> <<>>, browseIndex |-> 0, typed |-> 0, downloads |-> 0,
   phase |-> "none", lastSaved |-> <<>>]

PubIdle ==
  [tags |-> <<>>, isPublic |-> FALSE, effect |-> FALSE,
   last |-> [op |-> "none", before |-> <<>>]]

PreviewIdle == [present |-> FALSE, text |-> "", effects |-> <<>>]

NoFetch == [run |-> 0, query |-> <<>>]
NoKey == [key |-> "none", text |-> <<>>, highlighted |-> <<>>, before |-> <<>>,
          after |-> <<>>]

DropdownIdle ==
  [value |-> <<>>, inputValue |-> <<>>, showSuggestions |-> FALSE,
   suggestionSelected |-> FALSE, hideTimer |-> FALSE, suggestions |-> <<>>,
   selectedIndex |-> -1, loading |-> FALSE, external |-> FALSE, run |-> 0, timer |-> 0,
   fetches |-> {}, shown |-> NoFetch, newest |-> NoFetch, last |-> NoKey]

RecorderIdle ==
  [native |-> FALSE, isRecording |-> FALSE, error |-> FALSE, websocketRef |-> 0,
   open |-> {}, sockets |-> 0, recorderId |-> 0, mediaRecorderRef |-> 0, streamRef |-> 0,
   mrs |-> <<>>, calls |-> {}, clicks |-> 0, active |-> {}, stopped |-> {},
   delivered |-> <<>>, stopReturned |-> FALSE]

ChooserIdle == [filePathCallback |-> 0, callbacks |-> <<>>, pending |-> <<>>]

LaterIdle ==
  /\ term = TermIdle
  /\ pub = PubIdle
  /\ preview = PreviewIdle
  /\ dropdown = DropdownIdle
  /\ recorder = RecorderIdle
  /\ chooser = ChooserIdle

Init ==
  /\ clock = 0
  /\ vaultTreeUri \in {"null", "tree"}
  /\ dirs = {}
  /\ captureFiles = <<>>
  /\ mediaFiles = <<>>
  /\ bridge \in {"none", "capacitor", "webview"}
  /\ resolver = ResolverIdle
  /\ rotator = RotatorIdle
  /\ chips = ChipsIdle
  /\ fmt = FmtIdle
  /\ ui = UiIdle
  /\ electron = ElectronIdle
  /\ LaterIdle
  /\ payload = NoPayload
  /\ line = "idle"
  /\ txtFile = {}
  /\ binFile = {}
  /\ idx = 0
  /\ g = NewHistory
  /\ done = <<>>

(* ------------------------------- actions ------------------------------ *)
Env == <<clock, vaultTreeUri, bridge, Outside>>

\* MainActivity.onActivityResult -> setVaultTree
setVaultTree ==
  /\ line = "idle"
  /\ vaultTreeUri = "null"
  /\ vaultTreeUri' = "tree"
  /\ UNCHANGED <<clock, bridge, dirs, captureFiles, mediaFiles, payload, line, txtFile,
                 binFile, idx, g, done, Outside>>

\* the record kept of a returned call
Returned(json, history) ==
  [filename |-> payload.filename, content |-> payload.content, media |-> payload.media,
   raw |-> json, res |-> nativeSave(bridge, json), final |-> txtFile, history |-> history]

\* The web UI serialises a capture at the current instant (time may have
\* passed since the last one) and calls nativeSave, which returns at once
\* when there is no bridge and else enters the bridge method.
Request ==
  /\ line = "idle"
  /\ Len(done) < MaxSaves
  /\ \E now \in clock..MaxClock, given \in GivenIds, body \in Bodies, media \in MediaLists :
       LET d == formatCaptureMarkdown(given, now, body)
       IN /\ clock' = now
          /\ payload' = [filename |-> d.filename, content |-> d.content, media |-> media]
  /\ g' = NewHistory
  /\ txtFile' = {}
  /\ binFile' = {}
  /\ idx' = 0
  /\ IF bridge = "none"
     THEN /\ line' = "idle"
          /\ done' = Append(done, [filename |-> payload'.filename,
                                   content |-> payload'.content, media |-> payload'.media,
                                   raw |-> NoJson, res |-> nativeSave(bridge, NoJson),
                                   final |-> {}, history |-> NewHistory])
     ELSE /\ line' = "L72"
          /\ done' = done
  /\ UNCHANGED <<vaultTreeUri, bridge, dirs, captureFiles, mediaFiles, Outside>>

\* the bridge method returns json; nativeSave turns it into its result
Return(json, history) ==
  /\ done' = Append(done, Returned(json, history))
  /\ g' = history
  /\ line' = "idle"
  /\ UNCHANGED <<payload, txtFile, binFile, idx>>

Goto(l) ==
  /\ line' = l
  /\ UNCHANGED <<payload, done>>

\* an exception thrown at any line of the try block is caught at line 90
Throw(where, wf) ==
  Return(JsonException(wf), [g EXCEPT !.failedAt = where])

\* line 72-73: val tree = vaultTreeUri ?: return no_vault; fromTreeUri(..) ?: return
L72 ==
  /\ line = "L72"
  /\ \/ /\ vaultTreeUri = "null"
        /\ Return(JsonNoVault, [g EXCEPT !.failedAt = "vault"])
     \/ /\ vaultTreeUri = "tree"
        /\ Return(JsonOkFalse, [g EXCEPT !.failedAt = "vault"])
     \/ /\ vaultTreeUri = "tree"
        /\ Goto("L74")
        /\ UNCHANGED <<g, txtFile, binFile, idx>>
  /\ UNCHANGED <<Env, dirs, captureFiles, mediaFiles>>

\* an ensureDir that goes on to the next line when a directory cannot be made
ensureDirSwallow(rel, next) ==
  \/ /\ dirs' = dirs \cup DirPrefixes(rel, Len(rel))
     /\ Goto(next)
     /\ UNCHANGED <<g, txtFile, binFile, idx>>
  \/ \E k \in 1..Len(rel) :
       /\ Prefix(rel, k) \notin dirs
       /\ dirs' = dirs \cup DirPrefixes(rel, k - 1)
       /\ g' = [g EXCEPT !.failedAt = "dir"]
       /\ Goto(next)
       /\ UNCHANGED <<txtFile, binFile, idx>>

\* ensureDir: walk the parts of rel, creating each missing directory;
\* createDirectory returning null makes `next!!` throw
ensureDir(rel, next) ==
  \/ /\ dirs' = dirs \cup DirPrefixes(rel, Len(rel))
     /\ Goto(next)
     /\ UNCHANGED <<g, txtFile, binFile, idx>>
  \/ \E k \in 1..Len(rel) :
       /\ Prefix(rel, k) \notin dirs
       /\ dirs' = dirs \cup DirPrefixes(rel, k - 1)
       /\ Throw("dir", TRUE)

\* a line 74 that goes to the first write without ensuring the directories
L74Skip ==
  /\ line = "L74"
  /\ Goto("L106")
  /\ UNCHANGED <<Env, dirs, captureFiles, mediaFiles, g, txtFile, binFile, idx>>

L74 ==
  /\ line = "L74"
  /\ ensureDir(captureDirRel, "L75")
  /\ UNCHANGED <<Env, captureFiles, mediaFiles>>

L75 ==
  /\ line = "L75"
  /\ ensureDir(mediaDirRel, "L106")
  /\ UNCHANGED <<Env, captureFiles, mediaFiles>>

\* findFile(name) and, if it is a file, delete() of it: the listing that
\* results and whether a failure was discarded.  delete() reports a failure
\* by returning false, which the caller does not look at.
FindAndDelete(files, name) ==
  IF DisplayName(name) \in DOMAIN files
  THEN {[files |-> Remove(files, DisplayName(name)), ignored |-> FALSE],
        [files |-> files, ignored |-> TRUE]}
  ELSE {[files |-> files, ignored |-> FALSE]}

\* the names under which createFile can create the document: the display
\* name when it is free, else the provider's unique variant when that is free
CreatableNames(files, name) ==
  IF DisplayName(name) \notin DOMAIN files THEN {DisplayName(name)}
  ELSE {VariantName(name)} \ DOMAIN files

\* writeTextFile, lines 106-109
L106 ==
  /\ line = "L106"
  /\ \E o \in FindAndDelete(captureFiles, payload.filename) :
       /\ captureFiles' = o.files
       /\ g' = [g EXCEPT !.ignored = @ \/ o.ignored]
  /\ Goto("L110")
  /\ UNCHANGED <<Env, dirs, mediaFiles, txtFile, binFile, idx>>

\* writeTextFile, line 110: dir.createFile("text/markdown", name)!!
L110 ==
  /\ line = "L110"
  /\ \/ \E f \in CreatableNames(captureFiles, payload.filename) :
          /\ captureFiles' = Put(captureFiles, f, <<>>)
          /\ txtFile' = {f}
          /\ Goto("L111")
          /\ UNCHANGED <<g, binFile, idx>>
     \/ /\ Throw("text", TRUE)
        /\ UNCHANGED captureFiles
  /\ UNCHANGED <<Env, dirs, mediaFiles>>

\* writeTextFile, lines 111-114: open the stream, write, flush, close.
\* A failure leaves the part already written.
L111 ==
  /\ line = "L111"
  /\ \E f \in txtFile :
       \/ /\ captureFiles' = Put(captureFiles, f, payload.content)
          /\ Goto("L80")
          /\ UNCHANGED <<g, txtFile, binFile, idx>>
       \/ \E k \in 0..(Len(payload.content) - 1), wf \in BOOLEAN :
            /\ captureFiles' = Put(captureFiles, f, Prefix(payload.content, k))
            /\ Throw("text", wf)
  /\ UNCHANGED <<Env, dirs, mediaFiles>>

\* lines 79-89: the media loop; after it, return {"ok": true}
L80 ==
  /\ line = "L80"
  /\ IF idx < Len(payload.media)
     THEN /\ Goto("L118")
          /\ UNCHANGED <<g, txtFile, binFile, idx>>
     ELSE Return(JsonOkTrue, g)
  /\ UNCHANGED <<Env, dirs, captureFiles, mediaFiles>>

Item == payload.media[idx + 1]

\* writeBinaryFile, lines 118-121
L118 ==
  /\ line = "L118"
  /\ \E o \in FindAndDelete(mediaFiles, Item.name) :
       /\ mediaFiles' = o.files
       /\ g' = [g EXCEPT !.ignored = @ \/ o.ignored]
  /\ Goto("L123")
  /\ UNCHANGED <<Env, dirs, captureFiles, txtFile, binFile, idx>>

\* writeBinaryFile, lines 122-123: dir.createFile(mime, name)!!
L123 ==
  /\ line = "L123"
  /\ \/ \E f \in CreatableNames(mediaFiles, Item.name) :
          /\ mediaFiles' = Put(mediaFiles, f, <<>>)
          /\ binFile' = {f}
          /\ g' = [g EXCEPT !.mediaCreated = @ \cup {f}]
          /\ Goto("L124")
          /\ UNCHANGED <<txtFile, idx>>
     \/ /\ Throw("media", TRUE)
        /\ UNCHANGED mediaFiles
  /\ UNCHANGED <<Env, dirs, captureFiles>>

\* writeBinaryFile, lines 124-128: open the stream, Base64.decode (which
\* throws on text that is not Base64), write, flush, close
L124 ==
  /\ line = "L124"
  /\ \E f \in binFile :
       IF ~Base64Valid(Item.dataBase64)
       THEN /\ Throw("media", TRUE)
            /\ UNCHANGED mediaFiles
       ELSE LET bytes == Base64Decode(Item.dataBase64)
            IN \/ /\ mediaFiles' = Put(mediaFiles, f, bytes)
                  /\ idx' = idx + 1
                  /\ g' = [g EXCEPT !.mediaDone = @ + 1]
                  /\ Goto("L80")
                  /\ UNCHANGED <<txtFile, binFile>>
               \/ \E k \in 0..(Len(bytes) - 1) :
                    /\ mediaFiles' = Put(mediaFiles, f, Prefix(bytes, k))
                    /\ Throw("media", TRUE)
  /\ UNCHANGED <<Env, dirs, captureFiles>>

saveMarkdownAndMedia ==
  \/ L72 \/ L74 \/ L75 \/ L106 \/ L110 \/ L111 \/ L80 \/ L118 \/ L123 \/ L124

Next ==
  \/ setVaultTree
  \/ Request
  \/ saveMarkdownAndMedia

Spec == Init /\ [][Next]_vars

(* -------------------------- conflict resolver ------------------------- *)
\* The design's SafeMarkdownWriter.write_capture calls get_unique_idea_file
\* when the idea file exists; that method is not among the sources.  It is
\* modelled from the design text: try the atomic writer in create-only mode,
\* on a collision regenerate the identifier and retry, at most MaxAttempts
\* attempts in all, then NameExhausted.
MaxAttempts == 10

\* a regeneration that hands back the identifier it was given
RegenerateSame(base, n) == base

\* the identifier regenerated for retry n: the base with an incrementing suffix
Regenerate(base, n) == <<base[1], base[2], n>>

\* the candidate of attempt n (counted from 0)
Candidate(base, n) == IF n = 0 THEN base ELSE Regenerate(base, n)

ResolverBase == CaptureIdOf(1, 0)
ResolverNames ==
  {DisplayName(FilenameOf(Candidate(ResolverBase, n))) : n \in 0..(MaxAttempts - 1)}

\* the atomic writer in create-only mode: the listing after the write, or
\* the listing unchanged when the name is taken
CreateOnly(files, id, content) ==
  IF DisplayName(FilenameOf(id)) \in DOMAIN files
  THEN [created |-> FALSE, files |-> files]
  ELSE [created |-> TRUE, files |-> Put(files, DisplayName(FilenameOf(id)), content)]

EngineIdle ==
  /\ clock = 0
  /\ vaultTreeUri = "tree"
  /\ dirs = AllDirs
  /\ mediaFiles = <<>>
  /\ bridge = "none"
  /\ payload = NoPayload
  /\ line = "idle"
  /\ txtFile = {}
  /\ binFile = {}
  /\ idx = 0
  /\ done = <<>>

InitResolver ==
  /\ EngineIdle
  /\ captureFiles = <<>>
  /\ g = NewHistory
  /\ resolver = ResolverIdle
  /\ rotator = RotatorIdle
  /\ chips = ChipsIdle
  /\ fmt = FmtIdle
  /\ ui = UiIdle
  /\ electron = ElectronIdle
  /\ LaterIdle

EngineVars == <<clock, vaultTreeUri, dirs, mediaFiles, bridge, payload, line, txtFile,
                binFile, idx, g, done, rotator, chips, fmt, ui, electron, Later>>

\* a capture is handed to the resolver
ResolveStart ==
  /\ resolver.pc = "idle"
  /\ \E body \in Bodies :
       resolver' = [resolver EXCEPT !.pc = "try", !.body = body, !.cand = ResolverBase]
  /\ UNCHANGED <<captureFiles, EngineVars>>

\* one attempt: a create-only write of the candidate; on a collision the
\* identifier is regenerated, and the run ends once the bound is spent
ResolveAttempt ==
  /\ resolver.pc = "try"
  /\ LET w == CreateOnly(captureFiles, resolver.cand,
                         MarkdownOf(resolver.cand, clock, resolver.body))
         n == resolver.attempts + 1
     IN /\ captureFiles' = w.files
        /\ resolver' =
             IF w.created
             THEN [resolver EXCEPT !.pc = "done", !.attempts = n, !.result = "ok"]
             ELSE IF n >= MaxAttempts
             THEN [resolver EXCEPT !.pc = "done", !.attempts = n,
                                   !.tried = Append(@, resolver.cand),
                                   !.result = "NameExhausted"]
             ELSE [resolver EXCEPT !.attempts = n, !.tried = Append(@, resolver.cand),
                                   !.cand = Regenerate(ResolverBase, n)]
  /\ UNCHANGED EngineVars

\* another writer of the same vault creates a file under one of the names
OtherWriter ==
  /\ \E f \in ResolverNames \ DOMAIN captureFiles :
       captureFiles' = Put(captureFiles, f, MarkdownOf(f[1][1], clock, "other"))
  /\ UNCHANGED <<resolver, EngineVars>>

NextResolver == ResolveStart \/ ResolveAttempt \/ OtherWriter

SpecResolver == InitResolver /\ [][NextResolver]_vars

(* --------------------------- backup rotator --------------------------- *)
\* The markdown writer that keeps backups (markdown_writer.py) is not among
\* the sources.  The rotator is modelled from the design text: on an
\* explicit update the current file is copied to `{filename}.backup.{n}`,
\* n the next unused index; after the copy the backups beyond the retention
\* count are pruned, oldest first, and those older than the age limit are
\* removed in the same pass; then the target is overwritten.  A failed copy
\* is reported as a notice and does not stop the overwrite.
Retention == 5         \* backups kept per file
MaxAgeDays == 30       \* age limit of a backup, in days
MaxUpdates == 6        \* explicit updates made in one behaviour
MaxDay == 46           \* days the rotator's calendar can advance

\* the backups of the file are kept in the order they were made
NextIndex(backups) ==
  LET used == {backups[i].n : i \in DOMAIN backups}
  IN CHOOSE n \in 1..(Len(backups) + 1) : n \notin used /\ \A m \in 1..(n - 1) : m \in used

\* a pruning pass that drops the newest backups beyond the retention count
PruneNewestFirst(backups, now) ==
  LET kept == IF Len(backups) > Retention THEN SubSeq(backups, 1, Retention) ELSE backups
  IN SelectSeq(kept, LAMBDA b : now - b.at <= MaxAgeDays)

\* the pruning pass: beyond the retention count the oldest go first, then
\* every backup older than the age limit goes
Prune(backups, now) ==
  LET kept == IF Len(backups) > Retention
              THEN SubSeq(backups, Len(backups) - Retention + 1, Len(backups))
              ELSE backups
  IN SelectSeq(kept, LAMBDA b : now - b.at <= MaxAgeDays)

\* whether any backup of the list is older than the age limit
Aged(backups, now) == \E i \in DOMAIN backups : now - backups[i].at > MaxAgeDays

\* an update that gives up when the copy failed
ProceedOnlyIfCopied(copied) == copied

\* whether the overwrite is attempted after the backup step
ProceedAfterBackup(copied) == TRUE

RotatorFrame == <<BridgeVars, resolver, chips, fmt, ui, electron, Later>>

\* the bridge at rest on an empty vault
BridgeIdle ==
  /\ EngineIdle
  /\ captureFiles = <<>>
  /\ g = NewHistory

InitBackup ==
  /\ BridgeIdle
  /\ resolver = ResolverIdle
  /\ rotator = RotatorIdle
  /\ chips = ChipsIdle
  /\ fmt = FmtIdle
  /\ ui = UiIdle
  /\ electron = ElectronIdle
  /\ LaterIdle

\* one explicit update of the capture: backup copy, pruning pass, overwrite
ExplicitUpdate ==
  /\ rotator.updates < MaxUpdates
  /\ \E copyOk \in BOOLEAN, writeOk \in BOOLEAN :
       LET r == rotator
           copy == [n |-> NextIndex(r.backups), content |-> r.version, at |-> r.now]
           kept == IF copyOk THEN Prune(Append(r.backups, copy), r.now) ELSE r.backups
           proceed == ProceedAfterBackup(copyOk)
           written == proceed /\ writeOk
       IN rotator' =
            [r EXCEPT !.updates = @ + 1,
                      !.backups = kept,
                      !.version = IF written THEN r.updates + 1 ELSE @,
                      !.clean = @ /\ copyOk /\ writeOk /\ ~Aged(r.backups, r.now),
                      !.copied = copyOk,
                      !.attempted = proceed,
                      !.outcome = IF written THEN "saved"
                                  ELSE IF proceed THEN "WriteFailed" ELSE "BackupFailed",
                      !.notice = IF copyOk THEN "none" ELSE "BackupFailed"]
  /\ UNCHANGED RotatorFrame

\* days pass between two updates
Elapse ==
  /\ \E d \in {MaxAgeDays \div 2, MaxAgeDays + 1} :
       /\ rotator.now + d <= MaxDay
       /\ rotator' = [rotator EXCEPT !.now = @ + d]
  /\ UNCHANGED RotatorFrame

NextBackup == ExplicitUpdate \/ Elapse

SpecBackup == InitBackup /\ [][NextBackup]_vars

(* ----------------------------- entity chips --------------------------- *)
\* A string is the sequence of its characters.
MaxChips == 3          \* chips one component holds in the model

toLowerCase(str) ==
  [i \in DOMAIN str |->
     CASE str[i] = "A" -> "a" [] str[i] = "I" -> "i" [] str[i] = "L" -> "l"
       [] str[i] = "M" -> "m" [] str[i] = "S" -> "s" [] OTHER -> str[i]]

RECURSIVE trimStart(_)
trimStart(str) == IF str # <<>> /\ Head(str) = " " THEN trimStart(Tail(str)) ELSE str

RECURSIVE trimEnd(_)
trimEnd(str) ==
  IF str # <<>> /\ str[Len(str)] = " " THEN trimEnd(SubSeq(str, 1, Len(str) - 1)) ELSE str

trim(str) == trimEnd(trimStart(str))

endsWith(str, suffix) ==
  Len(str) >= Len(suffix) /\ SubSeq(str, Len(str) - Len(suffix) + 1, Len(str)) = suffix

\* slice(0, -k)
dropEnd(str, k) == SubSeq(str, 1, Len(str) - k)

\* replace(/-+/g, '-') and replace(/^-+|-+$/g, '')
RECURSIVE collapseDashes(_)
collapseDashes(str) ==
  IF Len(str) < 2 THEN str
  ELSE IF str[1] = "-" /\ str[2] = "-" THEN collapseDashes(Tail(str))
  ELSE <<str[1]>> \o collapseDashes(Tail(str))

RECURSIVE stripDashes(_)
stripDashes(str) ==
  IF str # <<>> /\ Head(str) = "-" THEN stripDashes(Tail(str))
  ELSE IF str # <<>> /\ str[Len(str)] = "-" THEN stripDashes(dropEnd(str, 1))
  ELSE str

\* normalizeVal of a source: lower case, drop what is not [a-z0-9\s-],
\* white space to '-', runs of '-' to one, no '-' at either end
normalizeSource(x) ==
  LET lower == toLowerCase(x)
      kept == SelectSeq(lower, LAMBDA c : c \notin {",", "_"})
      dashed == [i \in DOMAIN kept |-> IF kept[i] = " " THEN "-" ELSE kept[i]]
  IN stripDashes(collapseDashes(dashed))

\* normalizeVal of a tag: lower case and singular
normalizeTag(x) ==
  LET lower == toLowerCase(x)
  IN IF endsWith(lower, <<"i", "e", "s">>) /\ Len(lower) > 3
     THEN dropEnd(lower, 3) \o <<"y">>
     ELSE IF endsWith(lower, <<"s", "e", "s">>) /\ Len(lower) > 3 THEN dropEnd(lower, 2)
     ELSE IF endsWith(lower, <<"s">>) /\ ~endsWith(lower, <<"s", "s">>) THEN dropEnd(lower, 1)
     ELSE lower

normalizeVal(fieldType, v) ==
  LET x == trim(v)
  IN IF x = <<>> THEN x
     ELSE IF fieldType = "source" THEN normalizeSource(x) ELSE normalizeTag(x)

\* split(',')
RECURSIVE split(_)
split(str) ==
  IF \A i \in DOMAIN str : str[i] # "," THEN <<str>>
  ELSE LET k == CHOOSE i \in DOMAIN str : str[i] = "," /\ \A j \in 1..(i - 1) : str[j] # ","
       IN <<SubSeq(str, 1, k - 1)>> \o split(SubSeq(str, k + 1, Len(str)))

\* join(', ')
RECURSIVE join(_)
join(list) ==
  IF list = <<>> THEN <<>>
  ELSE IF Len(list) = 1 THEN list[1]
  ELSE list[1] \o <<",", " ">> \o join(Tail(list))

\* value.split(',').map(s => s.trim()).filter(s => s), and [] for ''
entitiesOf(value) ==
  IF value = <<>> THEN <<>>
  ELSE SelectSeq([i \in DOMAIN split(value) |-> trim(split(value)[i])], LAMBDA e : e # <<>>)

\* normalizeArray of the comma-separated string a form field holds
normalizeArray(v) ==
  SelectSeq([i \in DOMAIN split(v) |-> trim(split(v)[i])], LAMBDA e : e # <<>>)

includes(list, x) == \E i \in DOMAIN list : list[i] = x

\* what a user types or pastes into the chip input or into a chip
TypedValues ==
  {<<>>, <<"M", "L">>, <<"m", "l">>, <<"m", "l", "s">>, <<" ", "A", "I", " ">>,
   <<"a", "i">>, <<"m", " ", "l">>, <<"a", "i", ",", "A", "I">>}

ChipsFrame == <<BridgeVars, resolver, rotator, fmt, ui, electron, Later>>

InitChips ==
  /\ BridgeIdle
  /\ resolver = ResolverIdle
  /\ rotator = RotatorIdle
  /\ fmt = FmtIdle
  /\ ui = UiIdle
  /\ electron = ElectronIdle
  /\ LaterIdle
  /\ \E ft \in {"tag", "source"} : chips = [ChipsIdle EXCEPT !.fieldType = ft]

entities == entitiesOf(chips.value)

\* onChange(list.join(', ')): the parent stores the string and re-renders
onChange(list, rest) ==
  /\ Len(entitiesOf(join(list))) <= MaxChips
  /\ chips' = [rest EXCEPT !.value = join(list)]

handleInputChange ==
  /\ \E v \in TypedValues : chips' = [chips EXCEPT !.inputValue = v]
  /\ UNCHANGED ChipsFrame

\* Enter, ',' or blur of the input
addEntity ==
  /\ LET trimmed == trim(chips.inputValue)
         normalized == normalizeVal(chips.fieldType, trimmed)
         lowered == [i \in DOMAIN entities |-> toLowerCase(entities[i])]
         cleared == [chips EXCEPT !.inputValue = <<>>]
     IN /\ trimmed # <<>>
        /\ IF ~includes(lowered, toLowerCase(normalized))
           THEN onChange(Append(entities, normalized), cleared)
           ELSE chips' = cleared
  /\ UNCHANGED ChipsFrame

\* the remove button of a chip, or Backspace in the empty input (last chip)
removeEntity ==
  /\ \E index \in DOMAIN entities :
       /\ (index = Len(entities) \/ chips.editingIndex # index)
       /\ onChange(SelectSeq([i \in DOMAIN entities |-> IF i = index THEN <<>> ELSE entities[i]],
                             LAMBDA e : e # <<>>), chips)
  /\ UNCHANGED ChipsFrame

\* a click on a chip's text
startEdit ==
  /\ \E index \in DOMAIN entities :
       chips' = [chips EXCEPT !.editingIndex = index, !.editValue = entities[index]]
  /\ UNCHANGED ChipsFrame

setEditValue ==
  /\ chips.editingIndex \in DOMAIN entities
  /\ \E v \in TypedValues : chips' = [chips EXCEPT !.editValue = v]
  /\ UNCHANGED ChipsFrame

\* blur of the chip being edited (Enter blurs it)
editBlur ==
  /\ chips.editingIndex \in DOMAIN entities
  /\ LET val == normalizeVal(chips.fieldType, chips.editValue)
         updated == [i \in DOMAIN entities |-> IF i = chips.editingIndex THEN val ELSE entities[i]]
     IN onChange(updated, [chips EXCEPT !.editingIndex = 0, !.editValue = <<>>])
  /\ UNCHANGED ChipsFrame

\* Escape in the chip being edited
editEscape ==
  /\ chips.editingIndex # 0
  /\ chips' = [chips EXCEPT !.editingIndex = 0, !.editValue = <<>>]
  /\ UNCHANGED ChipsFrame

NextChips ==
  \/ handleInputChange \/ addEntity \/ removeEntity
  \/ startEdit \/ setEditValue \/ editBlur \/ editEscape

SpecChips == InitChips /\ [][NextChips]_vars

(* ------------------------------ serializers --------------------------- *)
\* A text is a sequence of pieces: a line break, a run of characters without
\* a line break, or a path (a string kept character by character) with the
\* markup around it.
NL == <<"nl">>
\* a line of three backticks
Fence == <<"t", "fence">>
T(str) == <<"t", str>>
Link(label, path) == <<"link", label, path>>

Contents ==
  {<<>>, <<NL>>, <<T("hello")>>, <<NL, T("hello")>>, <<T("hello"), NL>>, <<T("---")>>}
Clipboards ==
  {<<>>, <<T("clip")>>, <<T("a"), NL, T("b")>>, <<Fence, NL, T("x"), NL, Fence>>}
MediaTypes == {"", "screenshot", "audio", "image"}
MediaPaths ==
  {<<"/", "v", "/", "c", "/", "m", "/", "a">>, <<"/", "o", "/", "a">>, <<"m", "/", "a">>}
MaxMedia == 3          \* attachments of one capture
\* lists of several attachments, of two kinds in every order
AttachmentLists(n) ==
  IF n < 2 THEN {}
  ELSE UNION {[1..k -> {[type |-> t, path |-> <<"m", "/", "a">>] : t \in {"screenshot", "audio"}}]
                : k \in 2..n}
MediaInputs ==
  {<<>>} \cup {<<[type |-> t, path |-> pa]>> : t \in MediaTypes, pa \in MediaPaths}
    \cup AttachmentLists(MaxMedia)
ModalityLists == {<<>>, <<"text", "clipboard">>, <<"text", "screenshot">>}
CaptureDirs == {<<"/", "v", "/", "c">>, <<"/", "v", "/", "c", "/">>}
\* context: a string, or a record of named entities
ContextInputs ==
  {<<"str", <<>> >>, <<"str", <<" ">> >>, <<"str", <<"a", "\"", "b">> >>,
   <<"rec", << <<"activity", <<"r", "e", "a", "d">> >>, <<"device", <<>> >> >> >>}
\* tags and sources: a list of strings, or one string with commas
ListInputs ==
  {<<"arr", <<>> >>, <<"arr", << <<"a">>, <<"b", "\\">> >> >>, <<"arr", << <<"\\", "\"">> >> >>,
   <<"csv", <<"a", ",", " ", "b">> >>, <<"csv", <<"a", "\"", ",", "\\">> >>}
CaptureIds == {"", "c1"}
Locations == {"absent", "here"}
TsIso == "2024-01-01T00:00:00.000Z"

startsWith(str, prefix) == Len(str) >= Len(prefix) /\ SubSeq(str, 1, Len(prefix)) = prefix

\* str.trim() of a text: the line breaks at its ends go
RECURSIVE trimText(_)
trimText(text) ==
  IF text # <<>> /\ Head(text) = NL THEN trimText(Tail(text))
  ELSE IF text # <<>> /\ text[Len(text)] = NL THEN trimText(SubSeq(text, 1, Len(text) - 1))
  ELSE text

\* list.join(sep) of a list of texts
RECURSIVE joinTexts(_, _)
joinTexts(list, sep) ==
  IF list = <<>> THEN <<>>
  ELSE IF Len(list) = 1 THEN list[1]
  ELSE list[1] \o sep \o joinTexts(Tail(list), sep)

relativeMediaPath(mediaPath, captureDir) ==
  LET from == IF endsWith(captureDir, <<"/">>) THEN captureDir ELSE captureDir \o <<"/">>
  IN IF startsWith(mediaPath, from)
     THEN SubSeq(mediaPath, Len(from) + 1, Len(mediaPath))
     ELSE mediaPath

\* A header entry is a piece too.  What yaml.dump writes for a key is kept as
\* the value handed to it (js-yaml is not part of the source; a list may take
\* several lines of the file); what toMarkdown writes is kept as the
\* characters it puts after the key.
Kv(key, val) == <<"kv", key, val>>
KvText(key, chars) == <<"kvt", key, chars>>
Str(x) == <<"str", x>>
SeqOf(list) == <<"seq", list>>
Null == <<"null">>
EmptyMap == <<"map">>

\* normalizeArray of a list or of a string
normalizeArrayOf(v) == IF v[1] = "arr" THEN v[2] ELSE normalizeArray(v[2])

getContextEntities(v) ==
  IF v[1] = "str" THEN (IF v[2] # <<>> THEN <<v[2]>> ELSE <<>>)
  ELSE LET vals == [i \in DOMAIN v[2] |-> v[2][i][2]]
       IN SelectSeq(vals, LAMBDA x : x # <<>>)

\* generateCaptureId of the web client: the ISO string of the timestamp
generateCaptureIdIso(ts) == ts

\* the object fm, key by key in insertion order; a key whose value is
\* undefined is left out by the dump
fmEntries(capture) ==
  LET captureId == IF capture.capture_id # "" THEN capture.capture_id
                   ELSE generateCaptureIdIso(TsIso)
      modalities == IF capture.modalities # <<>> THEN capture.modalities ELSE <<"text">>
  IN <<Kv("timestamp", Str(TsIso)), Kv("id", Str(captureId)),
       Kv("aliases", SeqOf(<<captureId>>)), Kv("capture_id", Str(captureId)),
       Kv("modalities", SeqOf(modalities)),
       Kv("context", SeqOf(getContextEntities(capture.context))),
       Kv("sources", SeqOf(normalizeArrayOf(capture.sources))),
       Kv("tags", SeqOf(normalizeArrayOf(capture.tags)))>>
     \o (IF capture.location # "absent" THEN <<Kv("location", Str(capture.location))>>
         ELSE <<>>)
     \o <<Kv("metadata", EmptyMap), Kv("processing_status", Str("raw")),
          Kv("created_date", Str("2024-01-01")), Kv("last_edited_date", Str("2024-01-01")),
          Kv("importance", Null)>>

\* yaml.dump(fm): each entry ended by a line break
RECURSIVE dumpEntries(_)
dumpEntries(entries) ==
  IF entries = <<>> THEN <<>> ELSE <<Head(entries), NL>> \o dumpEntries(Tail(entries))

yamlStr(capture) == dumpEntries(fmEntries(capture))

\* the section of one entry of media_files
mediaSection(m, vaultCaptureDirAbs) ==
  LET t == IF m.type # "" THEN m.type ELSE "file"
      rel == relativeMediaPath(m.path, vaultCaptureDirAbs)
  IN CASE t = "screenshot" -> <<T("## Screenshot"), NL, Link("", m.path), NL>>
       [] t = "audio" -> <<T("## Audio"), NL, Link("[Audio Recording]", rel), NL>>
       [] t = "image" -> <<T("## Image"), NL, Link("![Image]", rel), NL>>
       [] OTHER -> <<T("## File"), NL, Link("[Attachment]", rel), NL>>

sections(capture, vaultCaptureDirAbs) ==
  LET clip == capture.clipboard
      main == IF trimText(capture.content) # <<>>
              THEN << <<T("## Content"), NL>> \o capture.content \o <<NL>> >> ELSE <<>>
      clipped == IF trimText(clip) = <<>> THEN <<>>
                 ELSE IF Head(clip) = Fence \/ includes(clip, NL)
                 THEN << <<T("## Clipboard"), NL>> \o clip \o <<NL>> >>
                 ELSE << <<T("## Clipboard"), NL, Fence, NL>> \o clip \o <<NL, Fence, NL>> >>
      media == [i \in DOMAIN capture.media_files |->
                  mediaSection(capture.media_files[i], vaultCaptureDirAbs)]
  IN main \o clipped \o media

\* a template with an empty line after the closing separator
mdBlankLine(yaml, sects) ==
  <<T("---"), NL>> \o yaml \o <<T("---"), NL, NL>> \o joinTexts(sects, <<>>)

\* `---\n${yamlStr}---\n${sections.join('')}`
md(yaml, sects) == <<T("---"), NL>> \o yaml \o <<T("---"), NL>> \o joinTexts(sects, <<>>)

\* s.replace(/\\/g, "\\\\").replace(/"/g, '\\"')
RECURSIVE escapeYamlKeepBackslash(_)
escapeYamlKeepBackslash(str) ==
  IF str = <<>> THEN <<>>
  ELSE (IF Head(str) = "\"" THEN <<"\\", "\"">> ELSE <<Head(str)>>)
         \o escapeYamlKeepBackslash(Tail(str))

RECURSIVE escapeYaml(_)
escapeYaml(str) ==
  IF str = <<>> THEN <<>>
  ELSE (IF Head(str) \in {"\\", "\""} THEN <<"\\", Head(str)>> ELSE <<Head(str)>>)
         \o escapeYaml(Tail(str))

quoted(chars) == <<"\"">> \o chars \o <<"\"">>

\* `[${list.map(x => `"${f(x)}"`).join(", ")}]`
flowList(list) ==
  <<"[">> \o join([i \in DOMAIN list |-> quoted(list[i])]) \o <<"]">>

\* toMarkdown of the terminal client
toMarkdown(data) ==
  LET yamlLines == << <<T("---")>>,
                      <<KvText("timestamp", quoted(<<data.timestamp>>))>>,
                      <<KvText("capture_id", quoted(<<data.capture_id>>))>>,
                      <<KvText("modalities",
                               flowList([i \in DOMAIN data.modalities |-> <<data.modalities[i]>>]))>>,
                      <<KvText("context",
                               IF trim(data.context) # <<>>
                               THEN <<"{", " ", "note", ":", " ">>
                                      \o quoted(escapeYaml(data.context)) \o <<" ", "}">>
                               ELSE <<"null">>)>>,
                      <<KvText("sources",
                               flowList([i \in DOMAIN data.sources |-> escapeYaml(data.sources[i])]))>>,
                      <<KvText("tags",
                               flowList([i \in DOMAIN data.tags |-> escapeYaml(data.tags[i])]))>>,
                      <<KvText("processing_status", quoted(<<"raw">>))>>,
                      <<KvText("importance", <<"0.5">>)>>,
                      <<KvText("metadata", <<"{", "}">>)>>,
                      <<T("---")>>, <<>> >>
      body == IF trimText(data.content) # <<>>
              THEN << <<T("## Content"), NL, NL>> \o trimText(data.content) \o <<NL>> >>
              ELSE <<>>
      clip == IF includes(data.modalities, "clipboard")
              THEN << <<T("## Clipboard"), NL, NL>> >> ELSE <<>>
      media == IF \E i \in DOMAIN data.modalities :
                    data.modalities[i] \in {"screenshot", "audio", "files"}
               THEN << <<T("## Media"), NL, NL>> >> ELSE <<>>
  IN joinTexts(yamlLines, <<NL>>) \o joinTexts(body \o clip \o media, <<NL>>)

\* splitCsv of the terminal client
splitCsv(str) ==
  SelectSeq([i \in DOMAIN split(str) |-> trim(split(str)[i])], LAMBDA x : x # <<>>)

\* generateCaptureId of the terminal client
generateCaptureIdLocal == "20240101_000000_000"

\* the payload TerminalUI builds on save: context is a string, tags and
\* sources are what splitCsv makes of the fields
terminalPayload(capture) ==
  [content |-> capture.content, context |-> capture.context[2],
   tags |-> splitCsv(capture.tags[2]), sources |-> splitCsv(capture.sources[2]),
   modalities |-> capture.modalities, timestamp |-> TsIso,
   capture_id |-> generateCaptureIdLocal]

FormatFrame == <<BridgeVars, resolver, rotator, chips, ui, electron, Later>>

\* a capture with every body input and a plain header, or with every header
\* input and a plain body
InitFormat ==
  /\ BridgeIdle
  /\ resolver = ResolverIdle
  /\ rotator = RotatorIdle
  /\ chips = ChipsIdle
  /\ ui = UiIdle
  /\ electron = ElectronIdle
  /\ LaterIdle
  /\ \/ \E c \in Contents, cl \in Clipboards, me \in MediaInputs, mo \in ModalityLists,
           d \in CaptureDirs :
          fmt = [FmtIdle EXCEPT !.capture.content = c, !.capture.clipboard = cl,
                                !.capture.media_files = me, !.capture.modalities = mo,
                                !.capture.capture_id = "c1", !.dir = d]
     \/ \E cx \in ContextInputs, ta \in ListInputs, so \in ListInputs, mo \in ModalityLists,
           id \in CaptureIds, lo \in Locations :
          fmt = [FmtIdle EXCEPT !.capture.content = <<T("hello")>>,
                                !.capture.context = cx, !.capture.tags = ta,
                                !.capture.sources = so, !.capture.modalities = mo,
                                !.capture.capture_id = id, !.capture.location = lo,
                                !.dir = <<"/", "v", "/", "c">>]

\* the web client serializes the capture
FormatCapture ==
  /\ fmt.by = "none"
  /\ fmt' = [fmt EXCEPT !.by = "formatCaptureMarkdown",
                        !.out = md(yamlStr(fmt.capture), sections(fmt.capture, fmt.dir))]
  /\ UNCHANGED FormatFrame

\* the terminal client serializes what its fields hold: strings, and no
\* attachment, clipboard text, identifier or location
TerminalSave ==
  /\ fmt.by = "none"
  /\ fmt.capture.context[1] = "str"
  /\ fmt.capture.tags[1] = "csv" \/ fmt.capture.tags[2] = <<>>
  /\ fmt.capture.sources[1] = "csv" \/ fmt.capture.sources[2] = <<>>
  /\ fmt' = [fmt EXCEPT !.by = "toMarkdown", !.out = toMarkdown(terminalPayload(fmt.capture))]
  /\ UNCHANGED FormatFrame

NextFormat == FormatCapture \/ TerminalSave

SpecFormat == InitFormat /\ [][NextFormat]_vars

(* ------------------------------ the web App -------------------------- *)
\* web/src/App.tsx holds several snapshots of the App component.  The ones
\* modelled: A1 (lines 14-157), A2 (lines 173-299), A4 (lines 487-720) and
\* A5 (lines 737 and on).  They differ in the save handler, in the save
\* hotkey and in how a key event is taken to carry Ctrl.
Apps == {"A1", "A2", "A4", "A5"}
MaxPresses == 2        \* save requests made in one behaviour

FilledForm ==
  [content |-> "note", tags |-> "ml", sources |-> "book", mediaFiles |-> <<"shot.png">>]

\* how a POST /api/capture can end: the fetch rejects, or it resolves with
\* a body that parses as JSON or does not
Saved == [kind |-> "saved", parses |-> TRUE, saved_to |-> TRUE, verified |-> "true"]
Unverified == [kind |-> "unverified", parses |-> TRUE, saved_to |-> FALSE, verified |-> "false"]
ErrorJson == [kind |-> "errorJson", parses |-> TRUE, saved_to |-> FALSE, verified |-> "absent"]
ErrorText == [kind |-> "errorText", parses |-> FALSE, saved_to |-> FALSE, verified |-> "absent"]
NetworkError == [kind |-> "network", parses |-> FALSE, saved_to |-> FALSE, verified |-> "absent"]
Answers == {Saved, Unverified, ErrorJson, ErrorText, NetworkError}

toggleModality(mods, m) ==
  IF includes(mods, m) THEN SelectSeq(mods, LAMBDA x : x # m) ELSE Append(mods, m)

\* the array `all` of toggleModalityByIndex
allModalities(app) ==
  IF app = "A2" THEN <<"text", "clipboard", "screenshot", "audio", "files">>
  ELSE <<"text", "clipboard", "screenshot", "audio", "system-audio">>

\* what a render's handlers close over
closure(u) == [form |-> u.form, modalities |-> u.modalities]

\* the keydown effect runs again after a render that changed one of its
\* dependencies: the listener registered from then on is that render's
keydownEffect(u) == [u EXCEPT !.captured = closure(u)]

\* setModalities always hands React a new array, so the effect runs again
toggleModalityByIndex(u, i) ==
  IF i >= 0 /\ i < Len(allModalities(u.app))
  THEN keydownEffect([u EXCEPT !.modalities = toggleModality(@, allModalities(u.app)[i + 1])])
  ELSE u

\* resetForm; the one of A2 also clears savedTo
resetForm(u) ==
  keydownEffect([u EXCEPT !.form = EmptyForm, !.modalities = <<"text">>,
                          !.savedTo = IF u.app = "A2" THEN FALSE ELSE @])

\* the save handler from `const j = await r.json()` to the end of `finally`
afterFetch(u, a) ==
  LET r == CASE u.app \in {"A1", "A2"} ->
                  IF a.parses THEN resetForm([u EXCEPT !.savedTo = a.saved_to])
                  ELSE [u EXCEPT !.savedTo = FALSE]
             [] u.app = "A4" ->
                  IF a.parses /\ a.verified # "false"
                  THEN resetForm([u EXCEPT !.saveSuccess = TRUE])
                  ELSE [u EXCEPT !.popup = "error"]
             [] OTHER ->
                  IF a.parses
                  THEN resetForm([u EXCEPT !.savedTo = a.saved_to, !.popup = "success"])
                  ELSE [u EXCEPT !.popup = "error", !.savedTo = FALSE]
  IN [r EXCEPT !.saving = FALSE]

\* the dependency list of the keydown effect names content, context, tags
\* and sources in the snapshot of lines 487-720 only
contentInDeps(app) == app = "A4"

\* a success indication is on the page
SuccessShown(u) == u.savedTo \/ u.saveSuccess \/ u.popup = "success"

UiFrame == <<BridgeVars, resolver, rotator, chips, fmt, electron, Later>>

InitUI ==
  /\ BridgeIdle
  /\ resolver = ResolverIdle
  /\ rotator = RotatorIdle
  /\ chips = ChipsIdle
  /\ fmt = FmtIdle
  /\ electron = ElectronIdle
  /\ LaterIdle
  /\ \E app \in Apps : ui = [UiIdle EXCEPT !.app = app]

\* the user fills the form in
EditForm ==
  /\ ui.form # FilledForm
  /\ LET u == [ui EXCEPT !.form = FilledForm, !.step = "edit"]
     IN ui' = IF contentInDeps(ui.app) THEN keydownEffect(u) ELSE u
  /\ UNCHANGED UiFrame

\* a click on the clipboard button of the ModalityBar
ClickClipboard ==
  /\ ui' = keydownEffect([ui EXCEPT !.modalities = toggleModality(@, "clipboard"),
                                    !.step = "click"])
  /\ UNCHANGED UiFrame

\* the save hotkey: Ctrl+S, in A4 Ctrl+Enter.  The handler runs up to its
\* first await: A4 and A5 first fetch /api/clipboard when that modality is on.
SaveHotkey ==
  /\ Len(ui.reqs) < MaxPresses
  /\ LET first == IF ui.app \in {"A4", "A5"} /\ includes(ui.captured.modalities, "clipboard")
                  THEN "clipboard" ELSE "posted"
     IN ui' = [ui EXCEPT !.saving = TRUE, !.step = "hotkey", !.posted = ui.captured,
                         !.reqs = Append(@, [pc |-> first, answer |-> NetworkError])]
  /\ UNCHANGED UiFrame

\* the fetch of /api/clipboard settles either way; the POST is sent
ClipboardSettles(i) ==
  /\ i \in DOMAIN ui.reqs /\ ui.reqs[i].pc = "clipboard"
  /\ ui' = [ui EXCEPT !.reqs[i].pc = "posted", !.step = "clipboard"]
  /\ UNCHANGED UiFrame

\* the POST settles
Answer(i) ==
  /\ i \in DOMAIN ui.reqs /\ ui.reqs[i].pc = "posted"
  /\ \E a \in Answers :
       ui' = [ui EXCEPT !.reqs[i].pc = "answered", !.reqs[i].answer = a, !.step = "answer"]
  /\ UNCHANGED UiFrame

\* the handler resumes
Process(i) ==
  /\ i \in DOMAIN ui.reqs /\ ui.reqs[i].pc = "answered"
  /\ LET a == ui.reqs[i].answer
         alone == afterFetch([ui EXCEPT !.savedTo = FALSE, !.saveSuccess = FALSE,
                                        !.popup = "none"], a)
     IN ui' = [afterFetch(ui, a) EXCEPT
                 !.reqs[i].pc = "done", !.step = "processed",
                 !.last = [answer |-> a.kind, formBefore |-> ui.form,
                           shown |-> SuccessShown(alone)]]
  /\ UNCHANGED UiFrame

\* a timer (or a click on the popup) takes an indication off the page
Dismiss ==
  /\ \/ ui.savedTo /\ ui' = [ui EXCEPT !.savedTo = FALSE, !.step = "timer"]
     \/ ui.saveSuccess /\ ui' = [ui EXCEPT !.saveSuccess = FALSE, !.step = "timer"]
     \/ ui.popup # "none" /\ ui' = [ui EXCEPT !.popup = "none", !.step = "timer"]
  /\ UNCHANGED UiFrame

Requests == 1..MaxPresses

NextUI ==
  \/ EditForm \/ ClickClipboard \/ SaveHotkey \/ Dismiss
  \/ \E i \in Requests : ClipboardSettles(i) \/ Answer(i) \/ Process(i)

SpecUI == InitUI /\ [][NextUI]_vars

\* every fetch settles and every settled promise resumes its handler
SpecUIFair ==
  /\ SpecUI
  /\ \A i \in Requests :
       WF_vars(ClipboardSettles(i)) /\ WF_vars(Answer(i)) /\ WF_vars(Process(i))

(* ------------------------------ key events --------------------------- *)
\* The Ctrl key is held or not whether or not the window has the focus; the
\* window's listeners see the events of the keys only while it has it.
\* A2 keeps a ref ctrlDown, set on keydown and cleared on keyup of Control;
\* the other snapshots read e.ctrlKey of the event.
Digits == {1, 2, 5, 6}

PressCtrl ==
  /\ ~ui.ctrlHeld
  /\ ui' = [ui EXCEPT !.ctrlHeld = TRUE,
                      !.ctrlDown = IF ui.focused /\ ui.app = "A2" THEN TRUE ELSE @,
                      !.ev = [key |-> 0, ctrlKey |-> TRUE], !.step = "key"]
  /\ UNCHANGED UiFrame

ReleaseCtrl ==
  /\ ui.ctrlHeld
  /\ ui' = [ui EXCEPT !.ctrlHeld = FALSE,
                      !.ctrlDown = IF ui.focused /\ ui.app = "A2" THEN FALSE ELSE @,
                      !.ev = [key |-> 0, ctrlKey |-> FALSE], !.step = "key"]
  /\ UNCHANGED UiFrame

\* the focus leaves the window (another tab or window), or comes back
Blur ==
  /\ ui.focused
  /\ ui' = [ui EXCEPT !.focused = FALSE, !.ev = [key |-> 0, ctrlKey |-> ui.ctrlHeld],
                      !.step = "focus"]
  /\ UNCHANGED UiFrame

Focus ==
  /\ ~ui.focused
  /\ ui' = [ui EXCEPT !.focused = TRUE, !.ev = [key |-> 0, ctrlKey |-> ui.ctrlHeld],
                      !.step = "focus"]
  /\ UNCHANGED UiFrame

\* onKeyDown of a digit key
KeyDigit ==
  /\ ui.focused
  /\ \E d \in Digits :
       LET ctrl == IF ui.app = "A2" THEN ui.ctrlDown ELSE ui.ctrlHeld
           u == IF ctrl THEN toggleModalityByIndex(ui, d - 1) ELSE ui
       IN ui' = [u EXCEPT !.ev = [key |-> d, ctrlKey |-> ui.ctrlHeld],
                          !.before = ui.modalities, !.step = "key"]
  /\ UNCHANGED UiFrame

NextKeys == PressCtrl \/ ReleaseCtrl \/ Blur \/ Focus \/ KeyDigit

SpecKeys == InitUI /\ [][NextKeys]_vars

(* ------------------------------ help overlay ------------------------- *)
\* a handler that only ever shows the overlay
showHelp(u) == [u EXCEPT !.help = TRUE]
\* setHelp(x => !x)
flipHelp(u) == [u EXCEPT !.help = ~@]

\* keydown of F1
PressF1 ==
  /\ ui.focused
  /\ ui' = [flipHelp(ui) EXCEPT !.step = "f1", !.ev = [key |-> 0, ctrlKey |-> ui.ctrlHeld]]
  /\ UNCHANGED UiFrame

\* a click on the Help button, which the snapshots of lines 14-157 and
\* 315-485 render
ClickHelp ==
  /\ ui.app = "A1"
  /\ ui' = [ui EXCEPT !.help = TRUE, !.step = "helpButton",
                      !.ev = [key |-> 0, ctrlKey |-> ui.ctrlHeld]]
  /\ UNCHANGED UiFrame

\* a click on the Close button of the overlay: onClose
CloseHelp ==
  /\ ui.help
  /\ ui' = [ui EXCEPT !.help = FALSE, !.step = "helpClose",
                      !.ev = [key |-> 0, ctrlKey |-> ui.ctrlHeld]]
  /\ UNCHANGED UiFrame

NextHelp == PressF1 \/ ClickHelp \/ CloseHelp \/ NextKeys

SpecHelp == InitUI /\ [][NextHelp]_vars

(* ------------------------------ form and save ------------------------- *)
MaxFiles == 1          \* attachments added to the form
TypedContents == {"note"}

\* the user types into the content field
TypeContent ==
  /\ \E c \in TypedContents :
       /\ c # ui.form.content
       /\ LET u == [ui EXCEPT !.form.content = c, !.step = "edit"]
          IN ui' = IF contentInDeps(ui.app) THEN keydownEffect(u) ELSE u
  /\ UNCHANGED UiFrame

\* a click on the audio button of the ModalityBar
ClickAudio ==
  /\ ui' = keydownEffect([ui EXCEPT !.modalities = toggleModality(@, "audio"),
                                    !.step = "click"])
  /\ UNCHANGED UiFrame

\* the AudioRecorder, rendered while the audio modality is on, hands over a
\* finished recording: setMediaFiles(prev => [...prev, file])
AudioReady ==
  /\ includes(ui.modalities, "audio")
  /\ Len(ui.form.mediaFiles) < MaxFiles
  /\ ui' = [ui EXCEPT !.form.mediaFiles = Append(@, "rec.webm"), !.step = "audio"]
  /\ UNCHANGED UiFrame

\* a click on the Save button (disabled while saving): the handler of the
\* current render
ClickSave ==
  /\ ~ui.saving
  /\ Len(ui.reqs) < MaxPresses
  /\ LET first == IF ui.app \in {"A4", "A5"} /\ includes(ui.modalities, "clipboard")
                  THEN "clipboard" ELSE "posted"
     IN ui' = [ui EXCEPT !.saving = TRUE, !.step = "saveButton", !.posted = closure(ui),
                         !.reqs = Append(@, [pc |-> first, answer |-> NetworkError])]
  /\ UNCHANGED UiFrame

NextForm ==
  \/ TypeContent \/ ClickAudio \/ AudioReady \/ ClickSave \/ SaveHotkey
  \/ \E i \in Requests : Answer(i) \/ Process(i)

SpecForm == InitUI /\ [][NextForm]_vars

(* --------------------------- electron/main.js ------------------------- *)
\* procs lists every child process spawned, with whether it was sent
\* SIGTERM; serverProcess and frontendProcess are the module variables (0:
\* undefined) and hold the index of the latest one.  calls holds where each
\* call of createWindow stands: waiting after the backend was spawned
\* ("backend"), waiting after the frontend was spawned ("frontend"), "done".
MaxCalls == 3          \* calls of createWindow in one behaviour
Platforms == {"darwin", "linux", "win32"}

spawn(e, kind) == Append(e.procs, [kind |-> kind, signalled |-> FALSE])

\* startBackendServer up to its promise
startBackendServer(e) ==
  [e EXCEPT !.procs = spawn(e, "backend"), !.serverProcess = Len(e.procs) + 1]

\* startFrontendServer up to its promise
startFrontendServer(e) ==
  [e EXCEPT !.procs = spawn(e, "frontend"), !.frontendProcess = Len(e.procs) + 1]

\* if (serverProcess) serverProcess.kill("SIGTERM"); the same for frontendProcess
killChildren(e) ==
  [e EXCEPT !.procs = [i \in DOMAIN e.procs |->
                         IF i \in {e.serverProcess, e.frontendProcess}
                         THEN [e.procs[i] EXCEPT !.signalled = TRUE] ELSE e.procs[i]]]

\* app.quit(): before-quit runs, the app ends
quitApp(e) == [killChildren(e) EXCEPT !.quit = TRUE]

\* createWindow up to its first await
createWindow(e) == [startBackendServer(e) EXCEPT !.calls = Append(@, "backend")]

ElectronFrame == <<BridgeVars, resolver, rotator, chips, fmt, ui, Later>>

InitElectron ==
  /\ BridgeIdle
  /\ resolver = ResolverIdle
  /\ rotator = RotatorIdle
  /\ chips = ChipsIdle
  /\ fmt = FmtIdle
  /\ ui = UiIdle
  /\ \E pl \in Platforms : electron = [ElectronIdle EXCEPT !.platform = pl]
  /\ LaterIdle

\* app.whenReady().then(createWindow)
WhenReady ==
  /\ ~electron.ready /\ ~electron.quit
  /\ electron' = [createWindow(electron) EXCEPT !.ready = TRUE]
  /\ UNCHANGED ElectronFrame

\* the 3 s timer of startBackendServer fires: createWindow goes on
BackendTimer ==
  /\ ~electron.quit
  /\ \E c \in DOMAIN electron.calls :
       /\ electron.calls[c] = "backend"
       /\ electron' = [startFrontendServer(electron) EXCEPT !.calls[c] = "frontend"]
  /\ UNCHANGED ElectronFrame

\* the 5 s timer of startFrontendServer fires: the window is made
FrontendTimer ==
  /\ ~electron.quit
  /\ \E c \in DOMAIN electron.calls :
       /\ electron.calls[c] = "frontend"
       /\ electron' = [electron EXCEPT !.calls[c] = "done", !.mainWindow = "window",
                                       !.windows = @ + 1]
  /\ UNCHANGED ElectronFrame

\* the user closes a window: its "closed" handler, and "window-all-closed"
\* when it was the last one
CloseWindow ==
  /\ ~electron.quit /\ electron.windows > 0
  /\ LET closed == [electron EXCEPT !.mainWindow = "null", !.windows = @ - 1]
     IN electron' = IF closed.windows > 0 THEN closed
                    ELSE IF closed.platform # "darwin" THEN quitApp(killChildren(closed))
                    ELSE killChildren(closed)
  /\ UNCHANGED ElectronFrame

\* "activate" (macOS: the dock icon is clicked)
Activate ==
  /\ electron.platform = "darwin" /\ electron.ready /\ ~electron.quit
  /\ electron.mainWindow = "null"
  /\ Len(electron.calls) < MaxCalls
  /\ electron' = createWindow(electron)
  /\ UNCHANGED ElectronFrame

\* the user or the system quits the app: "before-quit"
Quit ==
  /\ electron.ready /\ ~electron.quit
  /\ electron' = quitApp(electron)
  /\ UNCHANGED ElectronFrame

NextElectron == WhenReady \/ BackendTimer \/ FrontendTimer \/ CloseWindow \/ Activate \/ Quit

SpecElectron == InitElectron /\ [][NextElectron]_vars

(* ------------------- client/src/terminal/TerminalUI.tsx --------------- *)
\* The terminal client.  Its keydown effect lists every piece of state the
\* handler reads, so the handler always sees the latest render.  term.typed
\* and term.downloads count the onChange events and the files downloaded;
\* term.phase and term.lastSaved are history: how far the latest keys went
\* along save, Ctrl+B into browse mode, Ctrl+E, and the payload of that save.
MaxIdeas == 2          \* captures saved in one behaviour
MaxTyped == 1          \* onChange events in one behaviour

\* the keys pressed: s, b and e also with Ctrl, Tab also with Shift, and
\* Ctrl+Shift+S, whose key is "S"
TermKeys == {"s", "S", "Escape", "Tab", "b", "e", "j", "k", "2", "6"}
TermEvents ==
  {e \in [key : TermKeys, ctrlKey : BOOLEAN, shiftKey : BOOLEAN] :
     /\ e.ctrlKey => (e.key \in {"s", "S", "b", "e"} /\ (e.shiftKey <=> e.key = "S"))
     /\ e.shiftKey => e.key \in {"Tab", "S"}
     /\ e.key = "S" => e.ctrlKey}
TermFields == {"content", "context", "tags", "sources"}
TermTexts ==
  [content |-> {<<>>, <<"x">>}, context |-> {<<>>, <<"c">>},
   tags |-> {<<>>, <<" ", "a", ",", " ", ",", "b">>},
   sources |-> {<<>>, <<"s">>}]

ALL_MODALITIES == <<"text", "clipboard", "screenshot", "audio", "files">>
fieldOrder == <<"content", "context", "tags", "sources", "modalities">>

\* e.key.toLowerCase(), and parseInt(e.key, 10) where /^[1-9]$/ matches (else 0)
lowerKey(k) == IF k = "S" THEN "s" ELSE k
digitOfKey(k) == CASE k = "2" -> 2 [] k = "6" -> 6 [] OTHER -> 0

KeyAction(t) == [type |-> t, index |-> 0]

interpretKey(e) ==
  IF e.ctrlKey /\ lowerKey(e.key) = "s" THEN KeyAction("save")
  ELSE IF e.key = "Escape" THEN KeyAction("cancel")
  ELSE IF e.key = "F1" THEN KeyAction("help")
  ELSE IF e.key = "Tab" /\ ~e.shiftKey THEN KeyAction("next_field")
  ELSE IF e.key = "Tab" /\ e.shiftKey THEN KeyAction("prev_field")
  ELSE IF e.ctrlKey /\ lowerKey(e.key) = "b" THEN KeyAction("toggle_browse")
  ELSE IF e.ctrlKey /\ lowerKey(e.key) = "e" THEN KeyAction("toggle_edit")
  ELSE IF e.key = " " THEN KeyAction("toggle_modality_space")
  ELSE IF e.key = "j" THEN KeyAction("browse_down")
  ELSE IF e.key = "k" THEN KeyAction("browse_up")
  ELSE IF digitOfKey(e.key) \in 1..9
       THEN [type |-> "toggle_modality_number", index |-> digitOfKey(e.key) - 1]
  ELSE KeyAction("noop")

\* fieldOrder.indexOf(f), counted from 0, -1 when absent
indexOfField(f) ==
  IF \E i \in DOMAIN fieldOrder : fieldOrder[i] = f
  THEN (CHOOSE i \in DOMAIN fieldOrder : fieldOrder[i] = f) - 1
  ELSE -1

Max(a, b) == IF a > b THEN a ELSE b
Min(a, b) == IF a < b THEN a ELSE b

\* the payload of lines 76-84, without the time stamp and the identifier
termPayload(t) ==
  [content |-> t.content, context |-> t.context, tags |-> splitCsv(t.tags),
   sources |-> splitCsv(t.sources), modalities |-> t.activeModalities]

\* content.split("\n").find(l => l.trim().length) ?? "(untitled)", of one line
titleOf(content) == IF trim(content) # <<>> THEN content ELSE <<"(untitled)">>

termToggleModalityByIndex(t, index) ==
  IF index >= 0 /\ index < Len(ALL_MODALITIES)
  THEN [t EXCEPT !.activeModalities = toggleModality(@, ALL_MODALITIES[index + 1])]
  ELSE t

\* the branches of the keydown handler, lines 73-137
\* the new idea put behind the others instead of before them
termSaveAppend(t) ==
  [t EXCEPT !.downloads = @ + 1,
            !.ideas = @ \o <<termPayload(t) @@ [title |-> titleOf(t.content)]>>]

\* downloadMarkdown hands the browser one file; the idea goes first in the list
termSave(t) ==
  [t EXCEPT !.downloads = @ + 1,
            !.ideas = <<termPayload(t) @@ [title |-> titleOf(t.content)]>> \o @]

termCancel(t) ==
  [t EXCEPT !.content = <<>>, !.context = <<>>, !.tags = <<>>, !.sources = <<>>,
            !.activeModalities = <<"text">>, !.mode = "insert", !.activeField = "content"]

termToggleBrowse(t) ==
  IF t.mode = "browse" THEN [t EXCEPT !.mode = "insert", !.activeField = "content"]
  ELSE [t EXCEPT !.mode = "browse", !.activeField = "idea_list", !.browseIndex = 0]

termToggleEdit(t) ==
  IF t.mode = "browse" /\ t.browseIndex + 1 \in DOMAIN t.ideas
  THEN LET idea == t.ideas[t.browseIndex + 1]
       IN [t EXCEPT !.content = idea.content, !.context = idea.context,
                    !.tags = join(idea.tags), !.sources = join(idea.sources),
                    !.activeModalities = idea.modalities,
                    !.mode = "insert", !.activeField = "content"]
  ELSE t

termHandler(t, action) ==
  CASE action.type = "save" -> termSave(t)
    [] action.type = "cancel" -> termCancel(t)
    [] action.type = "help" -> [t EXCEPT !.showHelp = ~@]
    [] action.type = "next_field" ->
         [t EXCEPT !.activeField = fieldOrder[((indexOfField(@) + 1) % Len(fieldOrder)) + 1]]
    [] action.type = "prev_field" ->
         [t EXCEPT !.activeField =
            fieldOrder[((indexOfField(@) - 1 + Len(fieldOrder)) % Len(fieldOrder)) + 1]]
    [] action.type = "toggle_browse" -> termToggleBrowse(t)
    [] action.type = "toggle_edit" -> termToggleEdit(t)
    [] action.type = "toggle_modality_space" ->
         IF t.activeField = "modalities" THEN termToggleModalityByIndex(t, 0) ELSE t
    [] action.type = "browse_down" /\ t.mode = "browse" ->
         [t EXCEPT !.browseIndex = Min(@ + 1, Max(Len(t.ideas) - 1, 0))]
    [] action.type = "browse_up" /\ t.mode = "browse" ->
         [t EXCEPT !.browseIndex = Max(@ - 1, 0)]
    [] action.type = "toggle_modality_number" -> termToggleModalityByIndex(t, action.index)
    [] OTHER -> t

\* history: save, then Ctrl+B into browse mode, then Ctrl+E, with nothing between
phaseAfter(t, action, after) ==
  CASE action.type = "save" -> "saved"
    [] action.type = "toggle_browse" /\ t.phase = "saved" /\ after.mode = "browse" -> "browsing"
    [] action.type = "toggle_edit" /\ t.phase = "browsing" -> "edited"
    [] OTHER -> "none"

TermFrame == <<Earlier, pub, preview, dropdown, recorder, chooser>>

\* nothing of the earlier sections is running
EarlierIdle ==
  /\ BridgeIdle
  /\ resolver = ResolverIdle
  /\ rotator = RotatorIdle
  /\ chips = ChipsIdle
  /\ fmt = FmtIdle
  /\ ui = UiIdle
  /\ electron = ElectronIdle

InitTerm ==
  /\ EarlierIdle
  /\ LaterIdle

\* a keydown event reaches the window
TermKey ==
  \E e \in TermEvents :
    LET action == interpretKey(e)
        after == termHandler(term, action)
    IN /\ action.type = "save" => Len(term.ideas) < MaxIdeas
       /\ term' = [after EXCEPT !.phase = phaseAfter(term, action, after),
                                !.lastSaved = IF action.type = "save"
                                              THEN termPayload(term) ELSE @]
       /\ UNCHANGED TermFrame

\* onChange of the textarea or of an input
TermType ==
  /\ term.typed < MaxTyped
  /\ \E f \in TermFields : \E v \in TermTexts[f] :
       /\ v # term[f]
       /\ term' = [term EXCEPT ![f] = v, !.typed = @ + 1, !.phase = "none"]
  /\ UNCHANGED TermFrame

\* a click on the button of a modality
TermClickModality ==
  /\ \E i \in {1} :
       term' = [termToggleModalityByIndex(term, i) EXCEPT !.phase = "none"]
  /\ UNCHANGED TermFrame

\* onMouseEnter of an entry of the idea list
TermHover ==
  /\ \E i \in 0..(Len(term.ideas) - 1) :
       /\ i # term.browseIndex
       /\ term' = [term EXCEPT !.browseIndex = i, !.phase = "none"]
  /\ UNCHANGED TermFrame

NextTerm == TermKey \/ TermType \/ TermClickModality \/ TermHover

SpecTerm == InitTerm /\ [][NextTerm]_vars

(* --------------- web/src/components/CaptureForm.tsx (public) ---------- *)
\* The tags prop of a CaptureForm and the isPublic state its PublicToggle
\* shows.  pub.effect says that the effect on [p.tags] has yet to run: React
\* runs it after the render and before it handles the next event.  pub.last
\* is history: the latest event and the tag list before it.
PublicTag == <<"p", "u", "b", "l", "i", "c">>

TagTexts ==
  {<<>>, <<"a">>, PublicTag, <<"a", ",", " ">> \o PublicTag \o <<",", "b">>,
   PublicTag \o <<" ", ",", "a", ",">> \o PublicTag, <<" ", "a", ",", ",", "b">>,
   <<"b", ",", "a">>}

\* p.tags.split(',').map(t => t.trim()).filter(t => t)
tagListOf(tags) == normalizeArray(tags)

\* tagList.filter(t => t !== 'public'), stopping after the first one
filterFirstPublic(tagList) ==
  IF includes(tagList, PublicTag)
  THEN LET k == CHOOSE i \in DOMAIN tagList :
                  tagList[i] = PublicTag /\ \A j \in 1..(i - 1) : tagList[j] # PublicTag
       IN SubSeq(tagList, 1, k - 1) \o SubSeq(tagList, k + 1, Len(tagList))
  ELSE tagList

\* tagList.filter(t => t !== 'public')
filterPublic(tagList) == SelectSeq(tagList, LAMBDA t : t # PublicTag)

\* the tags handlePublicToggle hands to p.setTags
tagsAfterToggle(tags, newIsPublic) ==
  LET tagList == tagListOf(tags)
  IN IF newIsPublic
     THEN IF ~includes(tagList, PublicTag) THEN join(Append(tagList, PublicTag)) ELSE tags
     ELSE join(filterPublic(tagList))

PubFrame == <<Earlier, term, preview, dropdown, recorder, chooser>>

\* the form is mounted with some tags: the effect has yet to run
InitPub ==
  /\ EarlierIdle
  /\ term = TermIdle
  /\ \E v \in TagTexts : pub = [PubIdle EXCEPT !.tags = v, !.effect = TRUE]
  /\ preview = PreviewIdle
  /\ dropdown = DropdownIdle
  /\ recorder = RecorderIdle
  /\ chooser = ChooserIdle

\* the effect of lines 89-92
PublicEffect ==
  /\ pub.effect
  /\ pub' = [pub EXCEPT !.isPublic = includes(tagListOf(pub.tags), PublicTag),
                        !.effect = FALSE]
  /\ UNCHANGED PubFrame

\* a click on the toggle: onToggle(!isPublic), that is handlePublicToggle
handlePublicToggle ==
  /\ ~pub.effect
  /\ LET newIsPublic == ~pub.isPublic
         newTags == tagsAfterToggle(pub.tags, newIsPublic)
     IN pub' = [pub EXCEPT !.isPublic = newIsPublic, !.tags = newTags,
                           !.effect = (newTags # pub.tags),
                           !.last = [op |-> IF newIsPublic THEN "on" ELSE "off",
                                     before |-> tagListOf(pub.tags)]]
  /\ UNCHANGED PubFrame

\* the tags are edited: the parent's setTags gets another string
EditTags ==
  /\ ~pub.effect
  /\ \E v \in TagTexts :
       /\ v # pub.tags
       /\ pub' = [pub EXCEPT !.tags = v, !.effect = TRUE,
                             !.last = [op |-> "edit", before |-> tagListOf(pub.tags)]]
  /\ UNCHANGED PubFrame

NextPub == PublicEffect \/ handlePublicToggle \/ EditTags

SpecPub == InitPub /\ [][NextPub]_vars

(* ------------------ web/src/components/ClipboardPreview.tsx ----------- *)
\* A ClipboardPreview and the runs of its effect.  A run is the closure the
\* effect made: its variable mounted, its variable t (the number of the timer
\* it set last, 0 while undefined), the timer of its own that is scheduled
\* (0: none) and the read it awaits.  after is history: the reads the run
\* started once its cleanup had run.  Both versions of the component have
\* this shape; they differ in what read() awaits.
MaxRuns == 2           \* runs of the effect in one behaviour
MaxTimers == 2         \* timers one run of the effect sets

\* how read() can end: the text read, or a rejection
ReadResults == {"x", "", "rejects"}

NewRun == [mounted |-> TRUE, t |-> 0, scheduled |-> 0, reading |-> TRUE, after |-> 0]

\* the cleanup of line 21: clearTimeout of a timer that already fired does nothing
cleanup(run) ==
  [run EXCEPT !.mounted = FALSE,
              !.scheduled = IF run.t # 0 /\ run.scheduled = run.t THEN 0 ELSE @]

\* the latest run is the one whose cleanup React has yet to call
cleanupLatest(effects) ==
  [i \in DOMAIN effects |-> IF i = Len(effects) THEN cleanup(effects[i]) ELSE effects[i]]

PreviewFrame == <<Earlier, term, pub, dropdown, recorder, chooser>>

InitPreview ==
  /\ EarlierIdle
  /\ LaterIdle

\* the component is rendered: the effect runs, loop() starts the first read
MountPreview ==
  /\ ~preview.present
  /\ Len(preview.effects) < MaxRuns
  /\ preview' = [preview EXCEPT !.present = TRUE, !.text = "",
                                !.effects = Append(@, NewRun)]
  /\ UNCHANGED PreviewFrame

\* the component is taken away
UnmountPreview ==
  /\ preview.present
  /\ preview' = [preview EXCEPT !.present = FALSE,
                                !.effects = cleanupLatest(@)]
  /\ UNCHANGED PreviewFrame

\* intervalMs changes: the cleanup of the old run, then a new run
ChangeInterval ==
  /\ preview.present
  /\ Len(preview.effects) < MaxRuns
  /\ preview' = [preview EXCEPT !.effects = Append(cleanupLatest(@), NewRun)]
  /\ UNCHANGED PreviewFrame

\* the read of a run settles: setText if mounted, then finally sets a timer
ReadSettles(i) ==
  /\ preview.effects[i].reading
  /\ preview.effects[i].t < MaxTimers
  /\ \E r \in ReadResults :
       preview' = [preview EXCEPT
         !.text = IF preview.effects[i].mounted
                  THEN (IF r = "rejects" THEN "" ELSE r) ELSE @,
         !.effects[i] = [@ EXCEPT !.reading = FALSE, !.t = @ + 1,
                                  !.scheduled = preview.effects[i].t + 1]]
  /\ UNCHANGED PreviewFrame

\* a timer fires: loop() starts the next read
TimerFires(i) ==
  /\ preview.effects[i].scheduled # 0
  /\ preview' = [preview EXCEPT
       !.effects[i] = [@ EXCEPT !.scheduled = 0, !.reading = TRUE,
                                !.after = IF preview.effects[i].mounted THEN @ ELSE @ + 1]]
  /\ UNCHANGED PreviewFrame

NextPreview ==
  \/ MountPreview
  \/ UnmountPreview
  \/ ChangeInterval
  \/ \E i \in 1..MaxRuns : i \in DOMAIN preview.effects /\ ReadSettles(i)
  \/ \E i \in 1..MaxRuns : i \in DOMAIN preview.effects /\ TimerFires(i)

SpecPreview == InitPreview /\ [][NextPreview]_vars

(* ------ web/src/components/EntityChips.tsx, SuggestionDropdown.tsx ----- *)
\* A chip input and the SuggestionDropdown it renders with query={inputValue}
\* and visible={showSuggestions}.  run numbers the runs of the dropdown's
\* fetch effect; timer is the run whose debounce timer is scheduled (0: none);
\* fetches are the requests in flight, each with the run and the query of its
\* closure.  History: shown is the request whose answer is in suggestions,
\* newest the latest request whose answer was taken, last the latest key.
MaxQueries == 3        \* runs of the fetch effect in one behaviour

InputTexts == {<<>>, <<"a">>, <<"a", "b">>}
SuggestionLists == {<<>>, <<(<<"a", "b">>)>>, <<(<<"a", "b">>), (<<"a">>)>>}
ExternalSuggestions == <<(<<"a", "b">>)>>
ChipKeys == {"ArrowDown", "ArrowUp", "Escape", "Enter", ",", "Backspace"}

\* the fetch effect after a render: where query or visible changed, the
\* cleanup clears the timer and the effect runs again
fetchEffect(old, new) ==
  IF new.inputValue = old.inputValue /\ new.showSuggestions = old.showSuggestions THEN new
  ELSE IF ~new.showSuggestions
       THEN [new EXCEPT !.run = @ + 1, !.timer = 0, !.suggestions = <<>>,
                        !.selectedIndex = -1, !.shown = NoFetch]
  ELSE [new EXCEPT !.run = @ + 1, !.timer = new.run + 1]

\* the suggestion the dropdown marks as selected, <<>> when none
highlightedOf(d) ==
  IF d.showSuggestions /\ d.selectedIndex >= 0 /\ d.selectedIndex < Len(d.suggestions)
  THEN d.suggestions[d.selectedIndex + 1] ELSE <<>>

inputAddEntity(d) ==
  LET trimmed == trim(d.inputValue)
      ents == entitiesOf(d.value)
  IN IF trimmed # <<>> /\ ~includes(ents, trimmed)
     THEN [d EXCEPT !.value = join(Append(ents, trimmed)), !.inputValue = <<>>,
                    !.showSuggestions = FALSE]
     ELSE d

inputRemoveEntity(d, index) ==
  LET ents == entitiesOf(d.value)
  IN [d EXCEPT !.value = join(SelectSeq([i \in DOMAIN ents |->
                                           IF i = index + 1 THEN <<>> ELSE ents[i]],
                                        LAMBDA e : e # <<>>))]

\* the onSelect and onClose EntityChips hands to the dropdown; c is the
\* render whose ents onSelect closes over
onSelect(c, d, v) ==
  LET trimmed == trim(v)
      ents == entitiesOf(c.value)
  IN IF trimmed # <<>> /\ ~includes(ents, trimmed)
     THEN [d EXCEPT !.value = join(Append(ents, trimmed)), !.inputValue = <<>>,
                    !.showSuggestions = FALSE, !.suggestionSelected = FALSE]
     ELSE d

onClose(d) == [d EXCEPT !.showSuggestions = FALSE, !.suggestionSelected = FALSE]

\* EntityChips.handleKeyDown
chipsKeyDown(d, key) ==
  IF key \in {"ArrowDown", "ArrowUp"} THEN [d EXCEPT !.suggestionSelected = TRUE]
  ELSE IF key = "Escape"
       THEN [d EXCEPT !.suggestionSelected = FALSE, !.showSuggestions = FALSE]
  ELSE IF key = "Enter"
       THEN (IF d.showSuggestions /\ d.suggestionSelected THEN d ELSE inputAddEntity(d))
  ELSE IF key = ","
       THEN inputAddEntity(d)
  ELSE IF key = "Backspace" /\ d.inputValue = <<>> /\ entitiesOf(d.value) # <<>>
       THEN inputRemoveEntity(d, Len(entitiesOf(d.value)) - 1)
  ELSE d

\* SuggestionDropdown's handleKeyDown, as the render c registered it on window
dropdownKeyDown(c, d, key) ==
  IF ~c.showSuggestions \/ c.suggestions = <<>> THEN d
  ELSE IF key = "ArrowDown"
       THEN [d EXCEPT !.selectedIndex = IF @ < Len(c.suggestions) - 1 THEN @ + 1 ELSE 0]
  ELSE IF key = "ArrowUp"
       THEN [d EXCEPT !.selectedIndex = IF @ > 0 THEN @ - 1 ELSE Len(c.suggestions) - 1]
  ELSE IF key = "Enter"
       THEN (IF c.selectedIndex >= 0 /\ c.selectedIndex < Len(c.suggestions)
             THEN onClose(onSelect(c, d, c.suggestions[c.selectedIndex + 1]))
             ELSE d)
  ELSE IF key = "Escape" THEN onClose(d)
  ELSE d

\* the entries are rendered: visible, some suggestions, not loading
itemsRendered(d) == d.showSuggestions /\ d.suggestions # <<>> /\ ~d.loading

CanRun == dropdown.run < MaxQueries

DropdownFrame == <<Earlier, term, pub, preview, recorder, chooser>>

InitDropdown ==
  /\ EarlierIdle
  /\ term = TermIdle
  /\ pub = PubIdle
  /\ preview = PreviewIdle
  /\ \E x \in BOOLEAN : dropdown = [DropdownIdle EXCEPT !.external = x]
  /\ recorder = RecorderIdle
  /\ chooser = ChooserIdle

\* a key goes down in the input: the input's handler, then the listener on
\* window.  Where the input's handler changed state, the listener is the one
\* of the render before (effects run later) or after (effects run at once).
ChipKeyDown ==
  /\ CanRun
  /\ \E key \in ChipKeys : \E fresh \in BOOLEAN :
       LET mid == chipsKeyDown(dropdown, key)
           c == IF fresh THEN fetchEffect(dropdown, mid) ELSE dropdown
           final == dropdownKeyDown(c, mid, key)
       IN /\ fresh => mid # dropdown
          /\ dropdown' =
               [fetchEffect(dropdown, final) EXCEPT
                  !.last = IF key = "Enter"
                           THEN [key |-> key, text |-> trim(dropdown.inputValue),
                                 highlighted |-> highlightedOf(dropdown),
                                 before |-> entitiesOf(dropdown.value),
                                 after |-> entitiesOf(final.value)]
                           ELSE NoKey]
  /\ UNCHANGED DropdownFrame

\* handleInputChange
ChipType ==
  /\ CanRun
  /\ \E v \in InputTexts :
       /\ v # dropdown.inputValue
       /\ dropdown' = [fetchEffect(dropdown,
                         [dropdown EXCEPT !.inputValue = v, !.showSuggestions = TRUE,
                                          !.suggestionSelected = FALSE])
                       EXCEPT !.last = NoKey]
  /\ UNCHANGED DropdownFrame

\* onFocus
ChipFocus ==
  /\ CanRun
  /\ ~dropdown.showSuggestions
  /\ dropdown' = [fetchEffect(dropdown, [dropdown EXCEPT !.showSuggestions = TRUE])
                  EXCEPT !.last = NoKey]
  /\ UNCHANGED DropdownFrame

\* onBlur: a timer of 200 ms is set, and addEntity is called
ChipBlur ==
  /\ CanRun
  /\ ~dropdown.hideTimer
  /\ dropdown' = [fetchEffect(dropdown, inputAddEntity(dropdown))
                  EXCEPT !.hideTimer = TRUE, !.last = NoKey]
  /\ UNCHANGED DropdownFrame

\* the timer of onBlur fires
HideTimerFires ==
  /\ CanRun
  /\ dropdown.hideTimer
  /\ dropdown' = [fetchEffect(dropdown, [dropdown EXCEPT !.showSuggestions = FALSE])
                  EXCEPT !.hideTimer = FALSE, !.last = NoKey]
  /\ UNCHANGED DropdownFrame

\* onMouseEnter of an entry
HoverSuggestion ==
  /\ itemsRendered(dropdown)
  /\ \E i \in 0..(Len(dropdown.suggestions) - 1) :
       /\ i # dropdown.selectedIndex
       /\ dropdown' = [dropdown EXCEPT !.selectedIndex = i, !.last = NoKey]
  /\ UNCHANGED DropdownFrame

\* onClick of an entry
ClickSuggestion ==
  /\ CanRun
  /\ itemsRendered(dropdown)
  /\ \E i \in 0..(Len(dropdown.suggestions) - 1) :
       dropdown' = [fetchEffect(dropdown,
                      onClose(onSelect(dropdown, dropdown, dropdown.suggestions[i + 1])))
                    EXCEPT !.last = NoKey]
  /\ UNCHANGED DropdownFrame

\* the debounce timer fires: fetchSuggestions up to its first await
DebounceFires ==
  /\ dropdown.timer # 0
  /\ dropdown' =
       IF dropdown.external
       THEN [dropdown EXCEPT !.timer = 0, !.suggestions = ExternalSuggestions,
                             !.selectedIndex = -1, !.loading = FALSE, !.last = NoKey]
       ELSE [dropdown EXCEPT !.timer = 0, !.loading = TRUE, !.last = NoKey,
                             !.fetches = @ \cup {[run |-> dropdown.timer,
                                                  query |-> dropdown.inputValue]}]
  /\ UNCHANGED DropdownFrame

\* a request settles: its answer, or [] when it failed, becomes the suggestions
FetchSettles ==
  /\ \E f \in dropdown.fetches : \E list \in SuggestionLists :
       dropdown' = [dropdown EXCEPT
         !.fetches = @ \ {f}, !.suggestions = list, !.selectedIndex = -1,
         !.loading = FALSE, !.shown = f, !.last = NoKey,
         !.newest = IF f.run > @.run THEN f ELSE @]
  /\ UNCHANGED DropdownFrame

NextDropdown ==
  \/ ChipKeyDown
  \/ ChipType
  \/ ChipFocus
  \/ ChipBlur
  \/ HideTimerFires
  \/ HoverSuggestion
  \/ ClickSuggestion
  \/ DebounceFires
  \/ FetchSettles

SpecDropdown == InitDropdown /\ [][NextDropdown]_vars

(* ---------- web/src/components/AudioRecorder.tsx (with websocket) ------ *)
\* The recorder that asks the server to record (or, on a native platform,
\* uses a MediaRecorder).  A call of startRecording or stopRecording that
\* awaits something is a record in calls, with the number of its click, the
\* recorder_id its FormData holds and the MediaRecorder it took from the ref.
\* Sockets and identifiers are numbered in the order they are made: the field
\* open holds the sockets that are open, recorderId the ref's current value.
\* The server is taken to be a strict one: it records one thing at a time
\* (active), stops only what it is recording, and may fail any request.
\* History: stopped are the recordings whose stopping succeeded, delivered
\* the recordings whose file went to onAudioReady, and stopReturned says that
\* the latest step was a return of stopRecording.
MaxClicks == 4         \* clicks on the recorder's button in one behaviour

NewMediaRecorder == [state |-> "recording", onstop |-> 0, event |-> FALSE]

\* the catch blocks of lines 433-437 and 504-508
catchError(r) == [r EXCEPT !.error = TRUE, !.isRecording = FALSE]

\* the file of a native recording is that of its MediaRecorder
fileOfMr(mr) == <<"mr", mr>>
fileOfId(id) == <<"id", id>>

RecorderFrame == <<Earlier, term, pub, preview, dropdown, chooser>>

InitRecorder ==
  /\ EarlierIdle
  /\ term = TermIdle
  /\ pub = PubIdle
  /\ preview = PreviewIdle
  /\ dropdown = DropdownIdle
  /\ \E n \in BOOLEAN : recorder = [RecorderIdle EXCEPT !.native = n]
  /\ chooser = ChooserIdle

\* a click on Record: startRecording up to its first await
startRecording ==
  /\ ~recorder.isRecording
  /\ recorder.clicks < MaxClicks
  /\ LET n == recorder.clicks + 1
     IN recorder' =
          IF recorder.native
          THEN [recorder EXCEPT !.clicks = n, !.error = FALSE, !.stopReturned = FALSE,
                  !.calls = @ \cup {[n |-> n, kind |-> "start", at |-> "getUserMedia",
                                     id |-> 0, mr |-> 0]}]
          ELSE [recorder EXCEPT !.clicks = n, !.error = FALSE, !.stopReturned = FALSE,
                  !.recorderId = n,
                  !.calls = @ \cup {[n |-> n, kind |-> "start", at |-> "/api/audio/start",
                                     id |-> n, mr |-> 0]}]
  /\ UNCHANGED RecorderFrame

\* getUserMedia settles (lines 379-391), or rejects
MediaSettles ==
  /\ \E c \in recorder.calls : \E ok \in BOOLEAN :
       /\ c.at = "getUserMedia"
       /\ recorder' =
            IF ok
            THEN LET mr == Len(recorder.mrs) + 1
                 IN [recorder EXCEPT !.calls = @ \ {c}, !.streamRef = mr,
                       !.mediaRecorderRef = mr, !.mrs = Append(@, NewMediaRecorder),
                       !.isRecording = TRUE, !.stopReturned = FALSE]
            ELSE [catchError(recorder) EXCEPT !.calls = @ \ {c}, !.stopReturned = FALSE]
  /\ UNCHANGED RecorderFrame

\* POST /api/audio/start is answered (lines 406-431)
StartAnswered ==
  /\ \E c \in recorder.calls : \E ok \in BOOLEAN :
       /\ c.at = "/api/audio/start"
       /\ ok => recorder.active = {}
       /\ recorder' =
            IF ok
            THEN LET ws == recorder.sockets + 1
                 IN [recorder EXCEPT !.calls = @ \ {c}, !.active = {c.id},
                       !.isRecording = TRUE, !.sockets = ws, !.websocketRef = ws,
                       !.open = @ \cup {ws}, !.stopReturned = FALSE]
            ELSE [catchError(recorder) EXCEPT !.calls = @ \ {c}, !.stopReturned = FALSE]
  /\ UNCHANGED RecorderFrame

\* a click on Stop: stopRecording up to its first await, or to its end when
\* it throws before
stopRecording ==
  /\ recorder.isRecording
  /\ recorder.clicks < MaxClicks
  /\ LET n == recorder.clicks + 1
         mr == recorder.mediaRecorderRef
     IN recorder' =
          IF recorder.native
          THEN IF mr = 0
               THEN [catchError(recorder) EXCEPT !.clicks = n, !.stopReturned = TRUE]
               ELSE IF recorder.mrs[mr].state = "inactive"
               THEN [catchError(recorder) EXCEPT !.clicks = n, !.stopReturned = TRUE,
                       !.mrs[mr].onstop = n]
               ELSE [recorder EXCEPT !.clicks = n, !.stopReturned = FALSE,
                       !.mrs[mr] = [state |-> "inactive", onstop |-> n, event |-> TRUE],
                       !.calls = @ \cup {[n |-> n, kind |-> "stop", at |-> "done",
                                          id |-> 0, mr |-> mr]}]
          ELSE [recorder EXCEPT !.clicks = n, !.stopReturned = FALSE,
                  !.open = @ \ {recorder.websocketRef}, !.websocketRef = 0,
                  !.calls = @ \cup {[n |-> n, kind |-> "stop", at |-> "/api/audio/stop",
                                     id |-> recorder.recorderId, mr |-> 0]}]
  /\ UNCHANGED RecorderFrame

\* the stop event of a MediaRecorder: its onstop resolves the promise of the
\* call that set it last, and that call runs to its end (lines 461-470)
StopEvent ==
  /\ \E mr \in DOMAIN recorder.mrs :
       /\ recorder.mrs[mr].event
       /\ LET waiting == {c \in recorder.calls :
                            c.at = "done" /\ c.n = recorder.mrs[mr].onstop}
          IN recorder' =
               IF waiting = {}
               THEN [recorder EXCEPT !.mrs[mr].event = FALSE, !.stopReturned = FALSE]
               ELSE [recorder EXCEPT !.mrs[mr].event = FALSE, !.calls = @ \ waiting,
                       !.streamRef = 0, !.mediaRecorderRef = 0, !.isRecording = FALSE,
                       !.stopped = @ \cup {fileOfMr(mr)},
                       !.delivered = Append(@, fileOfMr(mr)), !.stopReturned = TRUE]
  /\ UNCHANGED RecorderFrame

\* POST /api/audio/stop is answered (lines 486-493)
StopAnswered ==
  /\ \E c \in recorder.calls : \E ok \in BOOLEAN :
       /\ c.at = "/api/audio/stop"
       /\ ok => c.id \in recorder.active
       /\ recorder' =
            IF ok
            THEN [recorder EXCEPT !.active = @ \ {c.id}, !.stopped = @ \cup {fileOfId(c.id)},
                    !.calls = (@ \ {c}) \cup {[c EXCEPT !.at = "/capture/raw_capture/media"]},
                    !.stopReturned = FALSE]
            ELSE [catchError(recorder) EXCEPT !.calls = @ \ {c}, !.stopReturned = TRUE]
  /\ UNCHANGED RecorderFrame

\* the recorded file is fetched (lines 494-502), or is not
FileAnswered ==
  /\ \E c \in recorder.calls : \E ok \in BOOLEAN :
       /\ c.at = "/capture/raw_capture/media"
       /\ recorder' =
            IF ok
            THEN [recorder EXCEPT !.calls = @ \ {c}, !.isRecording = FALSE,
                    !.delivered = Append(@, fileOfId(c.id)), !.stopReturned = TRUE]
            ELSE [catchError(recorder) EXCEPT !.calls = @ \ {c}, !.stopReturned = TRUE]
  /\ UNCHANGED RecorderFrame

NextRecorder ==
  \/ startRecording
  \/ MediaSettles
  \/ StartAnswered
  \/ stopRecording
  \/ StopEvent
  \/ StopAnswered
  \/ FileAnswered

SpecRecorder == InitRecorder /\ [][NextRecorder]_vars

(* ------------------- android MainActivity (file chooser) -------------- *)
\* The activity's field filePathCallback (0: null, else the number of a
\* callback), the callbacks the WebView handed over, each with the values it
\* received through onReceiveValue, and the request codes of the activities
\* that were started for a result and have not delivered it.
MaxRequests == 3       \* activities started for a result in one behaviour

REQ_PICK_DIR == 1001
REQ_FILE_CHOOSER == 1002

ResultCodes == {"RESULT_OK", "RESULT_CANCELED"}
\* the Intent of a result: null, one without data, one with a Uri
ResultData == {"null", "noUri", "uri"}

ChooserFrame ==
  <<clock, dirs, captureFiles, mediaFiles, bridge, payload, line, txtFile, binFile, idx,
    g, done, resolver, rotator, chips, fmt, ui, electron, term, pub, preview, dropdown,
    recorder>>

\* the activity as created, with or without a vault chosen before
InitChooser ==
  /\ clock = 0
  /\ vaultTreeUri \in {"null", "tree"}
  /\ dirs = AllDirs
  /\ mediaFiles = <<>>
  /\ captureFiles = <<>>
  /\ bridge = "none"
  /\ payload = NoPayload
  /\ line = "idle"
  /\ txtFile = {}
  /\ binFile = {}
  /\ idx = 0
  /\ g = NewHistory
  /\ done = <<>>
  /\ resolver = ResolverIdle
  /\ rotator = RotatorIdle
  /\ chips = ChipsIdle
  /\ fmt = FmtIdle
  /\ ui = UiIdle
  /\ electron = ElectronIdle
  /\ LaterIdle

\* the WebView asks for a file: onShowFileChooser
onShowFileChooser ==
  /\ Len(chooser.callbacks) < MaxRequests
  /\ chooser' = [chooser EXCEPT !.callbacks = Append(@, <<>>),
                                !.filePathCallback = Len(chooser.callbacks) + 1,
                                !.pending = Append(@, REQ_FILE_CHOOSER)]
  /\ UNCHANGED <<ChooserFrame, vaultTreeUri>>

\* the page asks for a vault directory: the picker is started for a result
StartPickDir ==
  /\ ~includes(chooser.pending, REQ_PICK_DIR)
  /\ chooser' = [chooser EXCEPT !.pending = Append(@, REQ_PICK_DIR)]
  /\ UNCHANGED <<ChooserFrame, vaultTreeUri>>

\* what onActivityResult hands to the callback of the field: nothing when
\* the field is null
receivedBy(c, resultCode, data) ==
  IF c.filePathCallback = 0 THEN c.callbacks
  ELSE [c.callbacks EXCEPT ![c.filePathCallback] =
          Append(@, IF resultCode = "RESULT_OK" /\ data = "uri" THEN "uri" ELSE "empty")]

\* an activity delivers its result: onActivityResult
onActivityResult ==
  /\ \E k \in DOMAIN chooser.pending : \E resultCode \in ResultCodes : \E data \in ResultData :
       LET requestCode == chooser.pending[k]
           rest == SubSeq(chooser.pending, 1, k - 1)
                     \o SubSeq(chooser.pending, k + 1, Len(chooser.pending))
       IN IF requestCode = REQ_PICK_DIR /\ resultCode = "RESULT_OK"
          THEN /\ vaultTreeUri' = IF data = "uri" THEN "tree" ELSE vaultTreeUri
               /\ chooser' = [chooser EXCEPT !.pending = rest]
          ELSE IF requestCode = REQ_FILE_CHOOSER
          THEN /\ chooser' = [chooser EXCEPT !.pending = rest, !.filePathCallback = 0,
                                             !.callbacks = receivedBy(chooser, resultCode, data)]
               /\ UNCHANGED vaultTreeUri
          ELSE /\ chooser' = [chooser EXCEPT !.pending = rest]
               /\ UNCHANGED vaultTreeUri
  /\ UNCHANGED ChooserFrame

NextChooser == onShowFileChooser \/ StartPickDir \/ onActivityResult

SpecChooser == InitChooser /\ [][NextChooser]_vars

(* ------------------------------- claims ------------------------------- *)
\* the latest call that returned, looked at in the state it returned in
AfterCall == line = "idle" /\ done # <<>>
Last == done[Len(done)]

\* C1: a create-mode save never touches an existing capture file: every file
\* that was in the capture directory when the save began is still there with
\* the same content when it has returned, and a save reported as saved ended
\* at a path that was not in use before.
C1_CreateNeverTouchesExisting ==
  AfterCall =>
    /\ \A f \in DOMAIN g.beforeCap :
         f \in DOMAIN captureFiles /\ captureFiles[f] = g.beforeCap[f]
    /\ Last.res = "ok" => Last.final \cap DOMAIN g.beforeCap = {}

\* C2: two save calls made from the same initial identifier, both reported
\* as saved: exactly one of them ended under that identifier, the other under
\* a different one, and the contents of both captures are on disk.
C2_SameIdentifierBothKept ==
  \A i, j \in DOMAIN done :
    (/\ line = "idle" /\ i < j /\ j = Len(done)
     /\ done[i].filename = done[j].filename
     /\ done[i].res = "ok" /\ done[j].res = "ok")
    => /\ done[i].final # done[j].final
       /\ Cardinality({k \in {i, j} : done[k].final = {DisplayName(done[k].filename)}}) = 1
       /\ \A k \in {i, j} : \E f \in DOMAIN captureFiles : captureFiles[f] = done[k].content

\* C3: in every state, each path of the vault holds no file or a complete
\* file: an observer never sees a partially written file under a final name.
C3_NoPartialFileVisible ==
  /\ \A f \in DOMAIN captureFiles : captureFiles[f] \in Documents
  /\ \A f \in DOMAIN mediaFiles : mediaFiles[f] = Blob

\* C4: when the write of the capture file fails, the failure is returned to
\* the caller and the capture directory is exactly as it was before the call
\* (no temporary file, the target absent or unchanged).
C4_FailedWriteLeavesTargetUntouched ==
  (AfterCall /\ g.failedAt = "text") =>
    /\ Last.res # "ok"
    /\ captureFiles = g.beforeCap

\* C5: media persistence is all-or-nothing: when a media write of a save
\* fails, none of the media files that save created is left in the media
\* directory when it returns, and the save is reported as failed.
C5_MediaAllOrNothing ==
  (AfterCall /\ g.failedAt = "media") =>
    /\ Last.res # "ok"
    /\ g.mediaCreated \cap DOMAIN mediaFiles = {}

\* C6: a save that fails on a media attachment leaves no capture markdown
\* file of that capture behind.
C6_NoCaptureFileAfterMediaFailure ==
  (AfterCall /\ g.failedAt = "media") =>
    Last.final \cap DOMAIN captureFiles = {}

\* C7: the conflict resolver terminates within its bound: it never makes more
\* than MaxAttempts attempts and while it runs an attempt is still left; when
\* it succeeds, the file of its candidate holds the capture and every earlier
\* candidate had collided; each retry used an identifier not tried before;
\* NameExhausted is returned exactly when MaxAttempts attempts all collided.
C7_ResolverBoundedRetry ==
  LET r == resolver
      name(id) == DisplayName(FilenameOf(id))
  IN /\ r.attempts <= MaxAttempts
     /\ r.pc = "try" => r.attempts < MaxAttempts /\ r.attempts = Len(r.tried)
     /\ \A i, j \in DOMAIN r.tried : i # j => r.tried[i] # r.tried[j]
     /\ \A i \in DOMAIN r.tried : name(r.tried[i]) \in DOMAIN captureFiles
     /\ r.pc = "try" => \A i \in DOMAIN r.tried : r.tried[i] # r.cand
     /\ r.result = "ok" =>
          /\ r.pc = "done" /\ r.attempts = Len(r.tried) + 1
          /\ \A i \in DOMAIN r.tried : r.tried[i] # r.cand
          /\ name(r.cand) \in DOMAIN captureFiles
          /\ captureFiles[name(r.cand)] = MarkdownOf(r.cand, clock, r.body)
     /\ r.result = "NameExhausted" =>
          r.pc = "done" /\ r.attempts = MaxAttempts /\ Len(r.tried) = MaxAttempts
     /\ r.pc = "done" => r.result \in {"ok", "NameExhausted"}

\* the resolver succeeded on a retry, after at least one collision
C7_Witness == resolver.result = "ok" /\ resolver.attempts > 1

\* C8: a save is reported as saved only if no step of it failed, the capture
\* file holds the content under the requested name and every attachment was
\* written; no failure of a step is dropped on the way to the caller.
C8_SuccessOnlyIfAllWritten ==
  AfterCall =>
    /\ Last.res = "ok" =>
         /\ g.failedAt = "none" /\ ~g.ignored
         /\ DisplayName(Last.filename) \in DOMAIN captureFiles
         /\ captureFiles[DisplayName(Last.filename)] = Last.content
         /\ g.mediaDone = Len(Last.media)
    /\ (g.failedAt # "none" \/ g.ignored) => Last.res # "ok"

\* C9: the identifiers of the captures reported as saved are pairwise distinct.
C9_IdentifiersDistinct ==
  \A i, j \in DOMAIN done :
    (i # j /\ done[i].res = "ok" /\ done[j].res = "ok")
    => IdOfFilename(done[i].filename) # IdOfFilename(done[j].filename)

\* C10: after any sequence of saves the media directory holds one stored
\* file per distinct blob content: no two media files have the same content.
C10_OneFilePerBlob ==
  line = "idle" =>
    \A f1, f2 \in DOMAIN mediaFiles :
      (f1 # f2 /\ mediaFiles[f1] = Blob) => mediaFiles[f2] # mediaFiles[f1]

\* C11: after k explicit updates of one capture, none of which failed and
\* with no backup past the age limit, exactly min(k, Retention) backups
\* exist, under distinct indices, and they hold the versions the most recent
\* updates replaced, oldest first.
C11_BackupsAreTheMostRecent ==
  LET r == rotator
      m == Min(r.updates, Retention)
  IN r.clean =>
       /\ Len(r.backups) = m
       /\ \A i \in DOMAIN r.backups : r.backups[i].content = r.updates - m + i - 1
       /\ \A i, j \in DOMAIN r.backups : i # j => r.backups[i].n # r.backups[j].n

\* six updates with retention 5: five backups remain, the oldest was pruned
C11_Witness ==
  /\ rotator.clean /\ rotator.updates = Retention + 1
  /\ Len(rotator.backups) = Retention
  /\ rotator.backups[1].content = 1

\* C12: an explicit update whose backup copy failed still attempts the
\* overwrite; when the overwrite itself succeeds the file holds the new
\* version and the outcome is "saved" with the notice BackupFailed; the
\* outcome is never BackupFailed (nothing saved on account of the backup).
C12_BackupFailureDoesNotBlock ==
  LET r == rotator
  IN /\ r.outcome # "BackupFailed"
     /\ (r.updates > 0 /\ ~r.copied) =>
          /\ r.attempted
          /\ r.notice = "BackupFailed"
          /\ r.outcome = "saved" => r.version = r.updates
          /\ r.outcome # "saved" => r.outcome = "WriteFailed"
     /\ (r.updates > 0 /\ r.copied) => r.notice = "none"

\* an update saved although its backup copy failed
C12_Witness ==
  /\ rotator.updates > 0 /\ ~rotator.copied
  /\ rotator.outcome = "saved" /\ rotator.notice = "BackupFailed"
  /\ rotator.version = rotator.updates

\* the lines of a call at which files are looked up, created or written
FileLines == {"L106", "L110", "L111", "L80", "L118", "L123", "L124"}

\* C13: within a save call both directories exist in full before the first
\* file operation: the call is at a file line only with all directories
\* present, no step changes a listing without them, and ensureDir on a path
\* that exists in full changes nothing and throws nothing.
C13_DirsBeforeWrites ==
  /\ [](line \in FileLines => AllDirs \subseteq dirs)
  /\ [][(captureFiles' # captureFiles \/ mediaFiles' # mediaFiles)
          => (line \in FileLines /\ AllDirs \subseteq dirs)]_vars
  /\ [][(line = "L74" /\ DirPrefixes(captureDirRel, Len(captureDirRel)) \subseteq dirs)
          => (dirs' = dirs /\ line' = "L75")]_vars
  /\ [][(line = "L75" /\ AllDirs \subseteq dirs) => (dirs' = dirs /\ line' = "L106")]_vars

\* a second call, which found the directories in place, is writing its file
C13_Witness ==
  /\ line = "L111" /\ Len(done) = 1 /\ done[1].res = "ok"
  /\ AllDirs \subseteq dirs

\* C14: a call that found no vault or could not create a directory returns a
\* failure and leaves the capture and media listings exactly as it found them.
C14_NoFileTouchedOnPathFailure ==
  (AfterCall /\ g.failedAt \in {"vault", "dir"}) =>
    /\ Last.res # "ok"
    /\ captureFiles = g.beforeCap
    /\ mediaFiles = g.beforeMed

\* a call failed on a directory it could not create, after creating another
C14_Witness ==
  /\ AfterCall /\ g.failedAt = "dir" /\ Last.res = "notok"
  /\ dirs # {} /\ ~(AllDirs \subseteq dirs)

\* C15: the chips and the list a header is serialized from are sets ignoring
\* case: no two entries are equal after lower-casing.
C15_ChipsCaseInsensitiveSet ==
  /\ \A i, j \in DOMAIN entities :
       i # j => toLowerCase(entities[i]) # toLowerCase(entities[j])
  /\ LET tags == normalizeArray(chips.value)
     IN \A i, j \in DOMAIN tags : i # j => toLowerCase(tags[i]) # toLowerCase(tags[j])

\* C16: every media path rendered into a capture's markdown is relative:
\* none begins with '/'.
C16_MediaPathsRelative ==
  \A i \in DOMAIN fmt.out :
    fmt.out[i][1] = "link" => ~startsWith(fmt.out[i][3], <<"/">>)

\* the lines of a text, as split at its line breaks
RECURSIVE linesOf(_)
linesOf(text) ==
  IF ~includes(text, NL) THEN <<text>>
  ELSE LET k == CHOOSE i \in DOMAIN text : text[i] = NL /\ \A j \in 1..(i - 1) : text[j] # NL
       IN <<SubSeq(text, 1, k - 1)>> \o linesOf(SubSeq(text, k + 1, Len(text)))

Headings ==
  {T("## Content"), T("## Clipboard"), T("## Screenshot"), T("## Audio"), T("## Image"),
   T("## File"), T("## Media")}

\* C20: a serialized capture begins with a separator line; the header that
\* follows has no empty line and is closed by the second separator line; the
\* line right after it is a body heading, or the text ends there.
C20_BodyFollowsHeaderImmediately ==
  fmt.by # "none" =>
    LET ls == linesOf(fmt.out)
        seps == {i \in DOMAIN ls : ls[i] = <<T("---")>>}
        closing == CHOOSE i \in seps \ {1} : \A j \in seps \ {1} : i <= j
    IN /\ 1 \in seps /\ seps \ {1} # {}
       /\ \A i \in 2..(closing - 1) : ls[i] # <<>>
       /\ closing < Len(ls)
       /\ \/ Len(ls[closing + 1]) = 1 /\ ls[closing + 1][1] \in Headings
          \/ closing + 1 = Len(ls) /\ ls[closing + 1] = <<>>

\* a capture whose content begins with an empty line was serialized, and its
\* heading stands right after the header
C20_Witness ==
  /\ fmt.by = "formatCaptureMarkdown"
  /\ fmt.capture.content = <<NL, T("hello")>>
  /\ includes(linesOf(fmt.out), <<T("## Content")>>)

\* C17: the form is cleared and a success indication raised only by a save
\* that succeeded: after the handler has taken a failed request or an error
\* answer, the form holds what it held and no success was indicated.
C17_FailedSaveKeepsForm ==
  (ui.step = "processed" /\ ui.last.answer # "saved") =>
    /\ ui.form = ui.last.formBefore
    /\ ~ui.last.shown

\* C18: every press of the save hotkey leads to the POST being sent; a
\* request the server answered with a successful save leads to a success
\* indication on the page; and a raised saving flag leads to a lowered one.
C18_HotkeySavesAndSettles ==
  /\ \A i \in Requests :
       (Len(ui.reqs) >= i) ~> (Len(ui.reqs) >= i /\ ui.reqs[i].pc # "clipboard")
  /\ \A i \in Requests :
       (Len(ui.reqs) >= i /\ ui.reqs[i].pc = "answered" /\ ui.reqs[i].answer = Saved)
         ~> SuccessShown(ui)
  /\ ui.saving ~> ~ui.saving

Range(list) == {list[i] : i \in DOMAIN list}

\* C19: right after the keydown of a digit, the active modalities are what
\* they were when Ctrl was not held, and differ from what they were in
\* exactly the modality at the digit's position when Ctrl was held and the
\* digit is one of 1..5.
C19_DigitTogglesOnlyWithCtrl ==
  ui.ev.key # 0 =>
    LET all == allModalities(ui.app)
        old == Range(ui.before)
        new == Range(ui.modalities)
    IN /\ ~ui.ev.ctrlKey => ui.modalities = ui.before
       /\ (ui.ev.ctrlKey /\ ui.ev.key \in DOMAIN all) =>
            (old \ new) \cup (new \ old) = {all[ui.ev.key]}

\* the lines of a text that are headings
HeadingLines(ls) == {i \in DOMAIN ls : Len(ls[i]) = 1 /\ ls[i][1] \in Headings}
MediaHeadings == {T("## Screenshot"), T("## Audio"), T("## Image"), T("## File")}
\* the lines of the section that begins at line i: up to the next heading
SectionBody(ls, hs, i) == {j \in DOMAIN ls : j > i /\ \A k \in hs : k > i => j < k}

\* C21: in a serialized capture every section heading is followed, before
\* the next heading or the end of the text, by at least one line that is
\* not empty.
C21_NoEmptySection ==
  fmt.by # "none" =>
    LET ls == linesOf(fmt.out)
        hs == HeadingLines(ls)
    IN \A i \in hs : \E j \in SectionBody(ls, hs, i) : ls[j] # <<>>

\* C22: in the markdown of a capture the Content heading comes before the
\* Clipboard heading, both come before every media heading, there is one
\* media heading per attachment, and the headings of one kind of media are
\* next to one another.
C22_SectionsOrderedAndGrouped ==
  fmt.by = "formatCaptureMarkdown" =>
    LET ls == linesOf(fmt.out)
        hs == HeadingLines(ls)
        ms == {i \in hs : ls[i][1] \in MediaHeadings}
    IN /\ \A i, j \in hs :
            \/ ls[i][1] = T("## Content") /\ ls[j][1] # T("## Content")
            \/ ls[i][1] = T("## Clipboard") /\ ls[j][1] \in MediaHeadings
            => i < j
       /\ Cardinality(ms) = Len(fmt.capture.media_files)
       /\ \A i, j, k \in ms : (i < j /\ j < k /\ ls[i] = ls[k]) => ls[j] = ls[i]

\* C23: when the clipboard text of a capture has several lines or begins
\* with a fence, the body of the Clipboard section begins and ends with a
\* fence line.
C23_ClipboardFenced ==
  LET clip == fmt.capture.clipboard
      ls == linesOf(fmt.out)
      hs == HeadingLines(ls)
  IN (/\ fmt.by = "formatCaptureMarkdown"
      /\ trimText(clip) # <<>>
      /\ (includes(clip, NL) \/ Head(clip) = Fence)) =>
       \E i \in hs :
         /\ ls[i][1] = T("## Clipboard")
         /\ LET full == {j \in SectionBody(ls, hs, i) : ls[j] # <<>>}
            IN /\ Cardinality(full) >= 3
               /\ \A j \in full :
                    (\A k \in full : j <= k) \/ (\A k \in full : j >= k)
                      => ls[j] = <<Fence>>

\* the entries of the header of the serialized text, in the order written
HeaderEntries == SelectSeq(fmt.out, LAMBDA piece : piece[1] \in {"kv", "kvt"})
HeaderKeys == [i \in DOMAIN HeaderEntries |-> HeaderEntries[i][2]]
\* the key that carries the identifier: id, or capture_id where there is no id
IdentifierKey == IF includes(HeaderKeys, "id") THEN "id" ELSE "capture_id"
FieldOrder ==
  <<"timestamp", IdentifierKey, "aliases", "modalities", "context", "sources", "tags",
    "location", "metadata", "processing_status", "created_date", "last_edited_date",
    "importance">>
ListFields == {"aliases", "modalities", "context", "sources", "tags"}
IsSequenceEntry(e) == IF e[1] = "kv" THEN e[3][1] = "seq" ELSE Head(e[3]) = "["

\* C24: the header of a serialized capture holds the fields timestamp,
\* identifier, aliases, modalities, context, sources, tags, location (when
\* the capture has one), metadata, processing_status, created_date,
\* last_edited_date, importance in that order; the aliases name the
\* identifier; every list field is written as a sequence, empty or not.
C24_HeaderFieldOrder ==
  fmt.by # "none" =>
    /\ SelectSeq(HeaderKeys, LAMBDA k : includes(FieldOrder, k))
         = SelectSeq(FieldOrder, LAMBDA k : k # "location" \/ fmt.capture.location # "absent")
    /\ \A i, j \in DOMAIN HeaderEntries :
         (HeaderKeys[i] = "aliases" /\ HeaderKeys[j] = IdentifierKey /\ HeaderEntries[i][1] = "kv")
           => includes(HeaderEntries[i][3][2], HeaderEntries[j][3][2])
    /\ \A i \in DOMAIN HeaderEntries :
         HeaderKeys[i] \in ListFields => IsSequenceEntry(HeaderEntries[i])

\* C25: no serialized capture carries a number as its importance: the
\* entry is null or is not there (no capture record has an importance of its
\* own to provide).
C25_ImportanceNullOrAbsent ==
  fmt.by # "none" =>
    \A i \in DOMAIN HeaderEntries :
      HeaderKeys[i] = "importance" =>
        IF HeaderEntries[i][1] = "kv" THEN HeaderEntries[i][3] = Null
        ELSE HeaderEntries[i][3] = <<"null">>

\* Reading a header back.  What yaml.dump wrote is read as the value it was
\* given.  What toMarkdown wrote is read as YAML reads a flow collection of
\* double-quoted scalars: a quote opens a scalar, a backslash inside one
\* takes the next character as it is, the next bare quote closes it; a
\* scalar left open is not a value at all.
RECURSIVE scanQuoted(_, _, _, _, _)
scanQuoted(cs, i, inq, cur, acc) ==
  IF i > Len(cs) THEN (IF inq THEN Append(acc, <<"unterminated">>) ELSE acc)
  ELSE IF ~inq
       THEN IF cs[i] = "\"" THEN scanQuoted(cs, i + 1, TRUE, <<>>, acc)
            ELSE scanQuoted(cs, i + 1, FALSE, cur, acc)
       ELSE IF cs[i] = "\\" /\ i < Len(cs)
            THEN scanQuoted(cs, i + 2, TRUE, Append(cur, cs[i + 1]), acc)
            ELSE IF cs[i] = "\"" THEN scanQuoted(cs, i + 1, FALSE, <<>>, Append(acc, cur))
            ELSE scanQuoted(cs, i + 1, TRUE, Append(cur, cs[i]), acc)

\* the scalars of the header entry of a key, as a list
Reparsed(key) ==
  LET e == CHOOSE x \in Range(HeaderEntries) : x[2] = key
  IN IF e[1] = "kvt" THEN scanQuoted(e[3], 1, FALSE, <<>>, <<>>)
     ELSE IF e[3][1] = "seq" THEN e[3][2]
     ELSE IF e[3][1] = "str" THEN <<e[3][2]>>
     ELSE <<>>

\* the same for a field whose scalars the model keeps whole (timestamp,
\* identifier, modality names): each scalar read is one such name
ReparsedNames(key) ==
  LET e == CHOOSE x \in Range(HeaderEntries) : x[2] = key
      r == Reparsed(key)
  IN IF e[1] = "kvt" THEN [i \in DOMAIN r |-> IF Len(r[i]) = 1 THEN r[i][1] ELSE "?"]
     ELSE r

\* the entries a list field of a capture stands for
EntriesOfField(v) == IF v[1] = "arr" THEN v[2] ELSE entitiesOf(v[2])
\* the entities read back are those of the context of the capture; a context
\* of nothing but blanks may be read back as no context
ContextReadBack(v, read) ==
  IF v[1] = "str"
  THEN \/ read = {v[2]} /\ v[2] # <<>>
       \/ read = {} /\ trim(v[2]) = <<>>
  ELSE read = {v[2][i][2] : i \in DOMAIN v[2]} \ {<<>>}

\* identifier, timestamp, context, sources and tags read back as given
RoundTripOfTheRest ==
  /\ ReparsedNames("timestamp") = <<TsIso>>
  /\ fmt.by = "formatCaptureMarkdown" /\ fmt.capture.capture_id # ""
       => ReparsedNames("id") = <<fmt.capture.capture_id>>
  /\ fmt.by = "toMarkdown" => ReparsedNames("capture_id") = <<generateCaptureIdLocal>>
  /\ ContextReadBack(fmt.capture.context, Range(Reparsed("context")))
  /\ Reparsed("sources") = EntriesOfField(fmt.capture.sources)
  /\ Reparsed("tags") = EntriesOfField(fmt.capture.tags)

C27_ChildrenSignalledAtQuit ==
  electron.quit => \A i \in DOMAIN electron.procs : electron.procs[i].signalled

\* C28: the help overlay follows the events: a keydown of F1 flips it, a
\* click on the Help button shows it, a click on the Close button hides it,
\* and no other event touches it.
C28_HelpFollowsEvents ==
  [][/\ ui'.step = "f1" => ui'.help = ~ui.help
     /\ ui'.step = "helpButton" => ui'.help
     /\ ui'.step = "helpClose" => ~ui'.help
     /\ ui'.step \notin {"f1", "helpButton", "helpClose"} => ui'.help = ui.help]_vars

\* F1 has just hidden an overlay that was showing
C28_Witness == ui.step = "f1" /\ ~ui.help

\* C29: the capture a press of the save hotkey posts is the form as it is at
\* the press: content, tags, sources, attachments and modalities.
C29_HotkeyPostsCurrentForm ==
  ui.step = "hotkey" => ui.posted = closure(ui)

\* C30: at most one POST to /api/capture is in flight at a time.
C30_OneSaveInFlight ==
  Cardinality({i \in DOMAIN ui.reqs : ui.reqs[i].pc = "posted"}) <= 1

\* C31: after saving a capture in the terminal client, Ctrl+B into browse mode
\* and Ctrl+E on that idea, the editor's content, context, tags, sources and
\* modalities are the saved ones, and the client is in insert mode with the
\* content field active.
C31_EditRestoresSaved ==
  term.phase = "edited" =>
    /\ term.content = term.lastSaved.content
    /\ term.context = term.lastSaved.context
    /\ splitCsv(term.tags) = term.lastSaved.tags
    /\ splitCsv(term.sources) = term.lastSaved.sources
    /\ term.activeModalities = term.lastSaved.modalities
    /\ term.mode = "insert"
    /\ term.activeField = "content"

\* the second of two saved ideas, with tags that were typed with blanks and an
\* empty entry, was edited again
C31_Witness ==
  /\ term.phase = "edited"
  /\ Len(term.ideas) = 2
  /\ term.ideas[1] # term.ideas[2]
  /\ term.tags = <<"a", ",", " ", "b">>
  /\ term.lastSaved.tags = <<(<<"a">>), (<<"b">>)>>

\* the entries of a tag list that are 'public', and the others in their order
PublicEntries(tagList) == SelectSeq(tagList, LAMBDA t : t = PublicTag)
OtherEntries(tagList) == SelectSeq(tagList, LAMBDA t : t # PublicTag)

\* C32: once the effects have run, the toggle shows public exactly when the
\* tag list contains 'public'; toggling on adds 'public' only if it is not
\* there already, toggling off removes every 'public' entry, and the other
\* tags keep their values and order.
C32_ToggleFollowsTags ==
  LET now == tagListOf(pub.tags)
  IN /\ ~pub.effect => (pub.isPublic <=> includes(now, PublicTag))
     /\ pub.last.op = "on" =>
           /\ Len(PublicEntries(now)) = Max(Len(PublicEntries(pub.last.before)), 1)
           /\ OtherEntries(now) = OtherEntries(pub.last.before)
     /\ pub.last.op = "off" =>
           /\ PublicEntries(now) = <<>>
           /\ OtherEntries(now) = OtherEntries(pub.last.before)

\* the toggle was switched off over a list that named 'public' twice
C32_Witness ==
  /\ pub.last.op = "off"
  /\ ~pub.effect
  /\ Len(PublicEntries(pub.last.before)) = 2
  /\ pub.tags = <<"a">>

\* C33: after a ClipboardPreview unmounts, no further read is started and no
\* timer remains scheduled, also when a read was in flight at the unmount;
\* while it is mounted, at most one read is in flight.
C33_NoReadAfterUnmount ==
  /\ \A i \in DOMAIN preview.effects :
        ~preview.effects[i].mounted =>
          preview.effects[i].scheduled = 0 /\ preview.effects[i].after = 0
  /\ preview.present =>
        Cardinality({i \in DOMAIN preview.effects : preview.effects[i].reading}) <= 1

\* C34: the suggestions the dropdown shows belong to the current query: the
\* answer to an older query never replaces that to a newer one, and no
\* suggestions are set once the dropdown is hidden.
C34_SuggestionsOfCurrentQuery ==
  /\ (dropdown.shown.run < dropdown.newest.run) =>
        dropdown.shown.query = dropdown.newest.query
  /\ ~dropdown.showSuggestions => dropdown.suggestions = <<>>

\* C35: Enter in a chip input with non-empty text, where the candidate is not
\* an entity yet, adds exactly one entity: the highlighted suggestion if one
\* is highlighted, otherwise the typed text.
C35_EnterAddsOneEntity ==
  LET candidate == IF dropdown.last.highlighted # <<>> THEN trim(dropdown.last.highlighted)
                   ELSE dropdown.last.text
  IN (/\ dropdown.last.key = "Enter"
      /\ dropdown.last.text # <<>>
      /\ ~includes(dropdown.last.before, candidate))
     => dropdown.last.after = Append(dropdown.last.before, candidate)

\* C36: each recording delivers at most one audio file through onAudioReady,
\* and only when stopping it succeeded; when stopRecording has returned, with
\* or without success, the recorder is not recording and its waveform
\* websocket is closed.
C36_OneFileAndStopped ==
  /\ \A i, j \in DOMAIN recorder.delivered :
        recorder.delivered[i] = recorder.delivered[j] => i = j
  /\ \A i \in DOMAIN recorder.delivered : recorder.delivered[i] \in recorder.stopped
  /\ recorder.stopReturned => (~recorder.isRecording /\ recorder.open = {})

\* C37: every file-chooser callback the WebView hands to the activity
\* receives exactly one onReceiveValue call: never a second one, and one
\* once every chooser that was started has delivered its result.
C37_EachCallbackAnsweredOnce ==
  /\ \A cb \in DOMAIN chooser.callbacks : Len(chooser.callbacks[cb]) <= 1
  /\ ~includes(chooser.pending, REQ_FILE_CHOOSER) =>
        \A cb \in DOMAIN chooser.callbacks : Len(chooser.callbacks[cb]) = 1

====
